---------------------------- MODULE Spec2Model ----------------------------
(***************************************************************************)
(* Analytics ingestion and batch-processing pipeline of the assistant      *)
(* backend: the chat_messages store and its change-capture queue           *)
(* (log_inserts), the content parser, the message analyzer and the two     *)
(* processing entry points of chat_process_pipeline.py.                    *)
(*                                                                         *)
(* Text is modelled as a sequence of one-character strings, so that the    *)
(* parser is computed character by character as the regular expressions    *)
(* of the source compute it.                                               *)
(***************************************************************************)
EXTENDS Integers, Sequences, FiniteSets, TLC

(***************************************************************************)
(* Bounds of the model.                                                    *)
(***************************************************************************)
\* number of messages the live session inserts
MaxMsgs == 2
\* number of processor runs that are terminated before they return
MaxCrashes == 1
\* number of invocations of the session-scoped entry point
MaxSessionRuns == 1
\* number of message_analytics rows after which no run starts, where
\* failing queue operations let the runs repeat their work without end
MaxRows == 2
\* number of message_analytics rows after which no run of the pipeline
\* goes on when the answers of the analyzer range over ValidateResponses
MaxValidated == 1
\* number of tokens of the contents on which the parser is called directly
MaxTokens == 2

(***************************************************************************)
(* Text helpers (Python str methods used by the pipeline).                 *)
(***************************************************************************)
Min(S) == CHOOSE x \in S : \A y \in S : x <= y

\* characters matched by \w in the patterns of the parser
WordChars ==
  {"a","b","c","d","e","f","g","h","i","j","k","l","m","n","o","p","q","r",
   "s","t","u","v","w","x","y","z","A","B","C","D","E","F","G","H","I","J",
   "K","L","M","N","O","P","Q","R","S","T","U","V","W","X","Y","Z","0","1",
   "2","3","4","5","6","7","8","9","_"}

\* characters removed by str.strip()
SpaceChars == {" ", "\t", "\n", "\r", "\f"}

\* the two quote characters of the character class ['"]
QuoteChars == {"'", "\""}

RECURSIVE LStrip(_)
LStrip(s) ==
  IF s # << >> /\ Head(s) \in SpaceChars THEN LStrip(Tail(s)) ELSE s

RECURSIVE RStrip(_)
RStrip(s) ==
  IF s # << >> /\ s[Len(s)] \in SpaceChars
  THEN RStrip(SubSeq(s, 1, Len(s) - 1))
  ELSE s

\* str.strip()
Strip(s) == RStrip(LStrip(s))

\* the pattern pat occurs in s at position i
HasPrefixAt(s, i, pat) ==
  /\ i >= 1
  /\ i + Len(pat) - 1 <= Len(s)
  /\ \A k \in 1..Len(pat) : s[i + k - 1] = pat[k]

\* first position >= i at which pat occurs in s, 0 when there is none
FirstIndexFrom(s, i, pat) ==
  LET S == {j \in i..Len(s) : HasPrefixAt(s, j, pat)}
  IN  IF S = {} THEN 0 ELSE Min(S)

\* first position >= i of s that holds a quote character, 0 when none
FirstQuoteFrom(s, i) ==
  LET S == {j \in i..Len(s) : j >= 1 /\ s[j] \in QuoteChars}
  IN  IF S = {} THEN 0 ELSE Min(S)

\* last position of the maximal run of \w characters that starts at i
\* (i - 1 when s[i] is no word character)
RECURSIVE WordRunEnd(_, _)
WordRunEnd(s, i) ==
  IF i <= Len(s) /\ s[i] \in WordChars THEN WordRunEnd(s, i + 1) ELSE i - 1

\* re.sub(r'^[\'"]|[\'"]$', "", s): one leading and one trailing quote
StripQuotes(s) ==
  LET a == IF s # << >> /\ Head(s) \in QuoteChars THEN Tail(s) ELSE s
  IN  IF a # << >> /\ a[Len(a)] \in QuoteChars
      THEN SubSeq(a, 1, Len(a) - 1)
      ELSE a

\* s.replace("\\n", " "): the two characters backslash, n become a space
RECURSIVE ReplaceEscapedNewline(_)
ReplaceEscapedNewline(s) ==
  IF Len(s) < 2 THEN s
  ELSE IF s[1] = "\\" /\ s[2] = "n"
       THEN <<" ">> \o ReplaceEscapedNewline(SubSeq(s, 3, Len(s)))
       ELSE <<s[1]>> \o ReplaceEscapedNewline(Tail(s))

(***************************************************************************)
(* ChatMessageParser.parse_chat_message_content                            *)
(***************************************************************************)
\* Python's None for the parsed role; \w+ never yields the empty string
None == << >>

RolePrefix == <<"r","o","l","e","=","'">>
ContentPrefix == <<"c","o","n","t","e","n","t","=","[">>

\* r"role='(\w+)'.*?content=\[(.*?)\]" with re.DOTALL, anchored at i:
\* the greedy \w+ is the maximal word run, which the quote must follow;
\* the lazy .*? stop at the first "content=[" and at the first "]".
ChatMessageMatchAt(s, i) ==
  LET r0 == i + Len(RolePrefix)
      e  == WordRunEnd(s, r0)
      c  == FirstIndexFrom(s, e + 2, ContentPrefix)
      y0 == c + Len(ContentPrefix)
      b  == FirstIndexFrom(s, y0, <<"]">>)
  IN  IF /\ HasPrefixAt(s, i, RolePrefix)
         /\ e >= r0
         /\ e + 1 <= Len(s)
         /\ s[e + 1] = "'"
         /\ c # 0
         /\ b # 0
      THEN [matched |-> TRUE,
            role    |-> SubSeq(s, r0, e),
            content |-> SubSeq(s, y0, b - 1)]
      ELSE [matched |-> FALSE, role |-> None, content |-> << >>]

\* re.search: the match at the leftmost position that has one
ChatMessageSearch(s) ==
  LET S == {i \in 1..Len(s) : ChatMessageMatchAt(s, i).matched}
  IN  IF S = {} THEN [matched |-> FALSE, role |-> None, content |-> << >>]
      ELSE ChatMessageMatchAt(s, Min(S))

\* r'[\'"]([^\'\"]+)[\'"]' anchored at i: a quote, a maximal non-empty run
\* of non-quote characters, a quote
SimpleTextMatchAt(s, i) ==
  LET q == FirstQuoteFrom(s, i + 1)
  IN  IF /\ i <= Len(s)
         /\ s[i] \in QuoteChars
         /\ q > i + 1
      THEN [matched |-> TRUE, text |-> SubSeq(s, i + 1, q - 1)]
      ELSE [matched |-> FALSE, text |-> << >>]

SimpleTextSearch(s) ==
  LET S == {i \in 1..Len(s) : SimpleTextMatchAt(s, i).matched}
  IN  IF S = {} THEN [matched |-> FALSE, text |-> << >>]
      ELSE SimpleTextMatchAt(s, Min(S))

UserRole == <<"u","s","e","r">>
AssistantRole == <<"a","s","s","i","s","t","a","n","t">>
SystemRole == <<"s","y","s","t","e","m">>

\* variant of the order: the quoted substring is tried before the pattern
\* of the ChatMessage format
ParseChatMessageContent_QuoteFirst(content) ==
  LET m  == ChatMessageSearch(content)
      sm == SimpleTextSearch(content)
  IN  IF sm.matched
      THEN [role |-> UserRole, text |-> sm.text]
      ELSE IF m.matched
           THEN [role |-> m.role,
                 text |-> Strip(ReplaceEscapedNewline(
                              StripQuotes(Strip(m.content))))]
           ELSE [role |-> None, text |-> Strip(content)]

\* (role, message_text) of a raw content string
ParseChatMessageContent(content) ==
  LET m  == ChatMessageSearch(content)
      sm == SimpleTextSearch(content)
  IN  IF m.matched
      THEN [role |-> m.role,
            text |-> Strip(ReplaceEscapedNewline(
                         StripQuotes(Strip(m.content))))]
      ELSE IF sm.matched
           THEN [role |-> UserRole, text |-> sm.text]
           ELSE [role |-> None, text |-> Strip(content)]


\* len(text.split()): number of maximal runs of non-whitespace characters
RECURSIVE WordCount(_)
WordCount(s) ==
  LET t == LStrip(s)
      S == {j \in 1..Len(t) : t[j] \in SpaceChars}
  IN  IF t = << >> THEN 0
      ELSE IF S = {} THEN 1
      ELSE 1 + WordCount(SubSeq(t, Min(S), Len(t)))

\* str.lower() on the letters of the alphabet
LowerChar(c) ==
  CASE c = "A" -> "a" [] c = "B" -> "b" [] c = "C" -> "c" [] c = "D" -> "d"
    [] c = "E" -> "e" [] c = "F" -> "f" [] c = "G" -> "g" [] c = "H" -> "h"
    [] c = "I" -> "i" [] c = "J" -> "j" [] c = "K" -> "k" [] c = "L" -> "l"
    [] c = "M" -> "m" [] c = "N" -> "n" [] c = "O" -> "o" [] c = "P" -> "p"
    [] c = "Q" -> "q" [] c = "R" -> "r" [] c = "S" -> "s" [] c = "T" -> "t"
    [] c = "U" -> "u" [] c = "V" -> "v" [] c = "W" -> "w" [] c = "X" -> "x"
    [] c = "Y" -> "y" [] c = "Z" -> "z" [] OTHER -> c

Lower(s) == [k \in 1..Len(s) |-> LowerChar(s[k])]

(***************************************************************************)
(* MessageAnalyzer                                                         *)
(*                                                                         *)
(* A decoded JSON value is a record [t, v]: t is "num" (v the number in    *)
(* tenths, so that 1.0 is 10 and the thresholds 0.1 are 1), "str" (v a     *)
(* text), "bool", "null" or "list" (v a sequence of values).  A decoded    *)
(* JSON object is a function from the keys it holds to values.             *)
(***************************************************************************)
JNum(n) == [t |-> "num", v |-> n]
JStr(s) == [t |-> "str", v |-> s]
JBool(b) == [t |-> "bool", v |-> b]
JNull == [t |-> "null", v |-> 0]
JList(l) == [t |-> "list", v |-> l]

Positive == <<"p","o","s","i","t","i","v","e">>
Negative == <<"n","e","g","a","t","i","v","e">>
Neutral == <<"n","e","u","t","r","a","l">>
Joy == <<"j","o","y">>
Sadness == <<"s","a","d","n","e","s","s">>
Anger == <<"a","n","g","e","r">>

SentimentLabels == {Positive, Negative, Neutral}
ValidEmotions ==
  {Joy, Sadness, Anger, <<"f","e","a","r">>,
   <<"s","u","r","p","r","i","s","e">>, <<"d","i","s","g","u","s","t">>,
   Neutral}

\* keywords[:5]
MaxKeywords == 5

\* analysis.get(key, default)
JGet(analysis, key, default) ==
  IF key \in DOMAIN analysis THEN analysis[key] ELSE default

\* str(kw) for the values a keyword list holds in this model
PyStr(j) ==
  CASE j.t = "str" -> j.v
    [] j.t = "null" -> <<"N","o","n","e">>
    [] j.t = "bool" -> IF j.v THEN <<"T","r","u","e">>
                       ELSE <<"F","a","l","s","e">>
    [] OTHER -> <<"?">>

\* variant of the cleaning: blank entries are dropped, the others are kept
\* as they are
CleanKeywords_Untrimmed(l) ==
  LET NonBlank(t) == Strip(t) # << >>
  IN  SelectSeq([k \in 1..Len(l) |-> PyStr(l[k])], NonBlank)

\* [str(kw).strip() for kw in keywords[:5] if str(kw).strip()]
RECURSIVE CleanKeywords(_)
CleanKeywords(l) ==
  IF l = << >> THEN << >>
  ELSE LET k == Strip(PyStr(Head(l)))
       IN  IF k # << >> THEN <<k>> \o CleanKeywords(Tail(l))
           ELSE CleanKeywords(Tail(l))

FirstN(l, n) == SubSeq(l, 1, IF Len(l) < n THEN Len(l) ELSE n)

\* variant of the validation: the score is only converted, not clamped
ClampScore_Unclamped(n) == n

\* max(-1.0, min(1.0, float(sentiment_score))), in tenths
ClampScore(n) == IF n > 10 THEN 10 ELSE IF n < -10 THEN -10 ELSE n

\* isinstance(x, (int, float)): numbers, and bool, which is an int
ValidatedScore(analysis) ==
  LET sc == JGet(analysis, "sentiment_score", JNum(0))
  IN  IF sc.t = "num" THEN ClampScore(sc.v)
      ELSE IF sc.t = "bool" THEN (IF sc.v THEN 10 ELSE 0)
      ELSE 0

\* variant of the inference: the thresholds are at 0
LabelFromScore_Zero(score) ==
  IF score > 0 THEN Positive
  ELSE IF score < 0 THEN Negative
  ELSE Neutral

\* label inferred from the score when the label is invalid
LabelFromScore(score) ==
  IF score > 1 THEN Positive
  ELSE IF score < -1 THEN Negative
  ELSE Neutral

\* _validate_analysis raises AttributeError when a label is no string
\* (.lower() of a non-string) or when the payload is no JSON object
ValidateRaises(analysis) ==
  \/ JGet(analysis, "sentiment_label", JStr(Neutral)).t # "str"
  \/ JGet(analysis, "emotion_label", JStr(Neutral)).t # "str"

ValidateAnalysis(analysis) ==
  LET score    == ValidatedScore(analysis)
      label    == Lower(JGet(analysis, "sentiment_label", JStr(Neutral)).v)
      emotion  == Lower(JGet(analysis, "emotion_label", JStr(Neutral)).v)
      keywords == JGet(analysis, "contains_keywords", JList(<< >>))
  IN  [sentiment_score   |-> score,
       sentiment_label   |-> IF label \in SentimentLabels THEN label
                             ELSE LabelFromScore(score),
       emotion_label     |-> IF emotion \in ValidEmotions THEN emotion
                             ELSE Neutral,
       contains_keywords |-> IF keywords.t = "list"
                             THEN CleanKeywords(FirstN(keywords.v, MaxKeywords))
                             ELSE << >>]

\* variant of the default: the members are present but empty
GetDefaultAnalysis_Empty ==
  [sentiment_score   |-> 0,
   sentiment_label   |-> << >>,
   emotion_label     |-> << >>,
   contains_keywords |-> << >>]

GetDefaultAnalysis ==
  [sentiment_score   |-> 0,
   sentiment_label   |-> Neutral,
   emotion_label     |-> Neutral,
   contains_keywords |-> << >>]

\* What the external capability does on one call: it raises, or it returns
\* a text that json.loads rejects ("text"), decodes to something that is no
\* object ("value"), or decodes to the object obj ("object").
RaiseResponse == [kind |-> "raise", obj |-> << >>]
TextResponse == [kind |-> "text", obj |-> << >>]
ValueResponse == [kind |-> "value", obj |-> << >>]
ObjectResponse(o) == [kind |-> "object", obj |-> o]

\* analyze_message: the neutral default unless the model is configured, the
\* call returns, the text decodes to an object and validation does not raise
AnalyzeMessage(configured, response) ==
  IF ~configured THEN GetDefaultAnalysis
  ELSE IF response.kind # "object" THEN GetDefaultAnalysis
  ELSE IF ValidateRaises(response.obj) THEN GetDefaultAnalysis
  ELSE ValidateAnalysis(response.obj)

(***************************************************************************)
(* State.                                                                  *)
(***************************************************************************)
VARIABLES
  chat_messages,      \* table chat_messages: rows in id order
  chat_sessions,      \* table chat_sessions: the session ids it holds
  next_id,            \* AUTOINCREMENT counter of chat_messages
  log_inserts,        \* table log_inserts: rows [chat_message_id, processed]
  message_analytics,  \* table message_analytics: rows in insertion order
  txn,                \* the open transaction of save_chat_message
  save_result,        \* what the last save_chat_message returned
  proc,               \* process_unprocessed_messages: locals of each caller
  sess,               \* process_session_analytics: locals of the caller
  model_configured,   \* module-level model is not None
  ever_logged,        \* history: ids for which a log_inserts row was created
  terminated_runs,    \* history: per terminated run, the ids it had saved
  session_runs,       \* history: number of session-scoped invocations
  analytics_data,     \* what the last get_analytics_data returned
  parse_result,       \* the last direct call of the parser and its outcome
  marked_unknown,     \* history: ids passed to mark_messages_processed
                      \* while log_inserts held no row for them
  mig                 \* run_migration: locals of each invocation

vars == <<chat_messages, chat_sessions, next_id, log_inserts,
          message_analytics, txn, save_result, proc, sess, model_configured,
          ever_logged, terminated_runs, session_runs, analytics_data,
          parse_result, marked_unknown, mig>>

\* callers of process_unprocessed_messages
Procs == {1, 2}

ValidRoles == {UserRole, AssistantRole, SystemRole}

SessionIds == {"s1", "s2"}

\* role='assistant' content=['ok']
StructuredContent ==
  <<"r","o","l","e","=","'","a","s","s","i","s","t","a","n","t","'"," ",
    "c","o","n","t","e","n","t","=","[","'","o","k","'","]">>

\* role='user' content=['']
StructuredEmptyContent ==
  <<"r","o","l","e","=","'","u","s","e","r","'"," ",
    "c","o","n","t","e","n","t","=","[","'","'","]">>

\* the messages the live session writes in this model
SampleMessages ==
  {[session_id |-> "s1", role |-> UserRole, content |-> <<"h","i">>],
   [session_id |-> "s1", role |-> AssistantRole,
    content |-> StructuredContent],
   [session_id |-> "s2", role |-> UserRole, content |-> <<" ">>],
   [session_id |-> "s2", role |-> UserRole,
    content |-> StructuredEmptyContent],
   [session_id |-> "s1", role |-> SystemRole,
    content |-> <<"'","y","o","'">>]}

\* the answers of the external capability in this model
SampleResponses ==
  {RaiseResponse,
   ObjectResponse([sentiment_score |-> JNum(50),
                   sentiment_label |-> JStr(<<"P","o","s","i","t","i","v","e">>),
                   emotion_label   |-> JStr(<<"e","c","s","t","a","t","i","c">>),
                   contains_keywords |-> JList(<<JStr(<<"h","i">>)>>)])}

(***************************************************************************)
(* Storage operations on the three tables.                                 *)
(***************************************************************************)
\* the elements of a sequence
Range(s) == {s[k] : k \in 1..Len(s)}

\* the members of a finite set of integers in ascending order
RECURSIVE SortedSeq(_)
SortedSeq(S) ==
  IF S = {} THEN << >> ELSE <<Min(S)>> \o SortedSeq(S \ {Min(S)})

\* variant of the trigger: the trigger is missing, no row is written
TriggerLogChatMessageInserts_Missing(new_id) == << >>

\* trigger_log_chat_message_inserts: the log_inserts row written by the
\* INSERT statement that writes chat_messages row new_id
TriggerLogChatMessageInserts(new_id) ==
  <<[chat_message_id |-> new_id, processed |-> FALSE]>>

\* db.get_unprocessed_message_ids(): ids of the rows not yet processed,
\* ascending
GetUnprocessedMessageIds(log) ==
  SortedSeq({log[k].chat_message_id : k \in {j \in 1..Len(log) :
                                             ~log[j].processed}})

\* db.get_chat_messages_by_ids(ids): the rows of these ids, ascending by id
GetChatMessagesByIds(msgs, ids) ==
  LET Wanted(m) == m.id \in Range(ids)
  IN  SelectSeq(msgs, Wanted)

\* variant of the mark: an id without a row gets a row with the flag set
\* (an INSERT OR REPLACE in place of the UPDATE)
MarkMessagesProcessed_Upsert(log, ids) ==
  LET Unknown(i) == \A k \in 1..Len(log) : log[k].chat_message_id # i
      unknown    == SelectSeq(ids, Unknown)
  IN  [k \in 1..Len(log) |->
         IF log[k].chat_message_id \in Range(ids)
         THEN [log[k] EXCEPT !.processed = TRUE]
         ELSE log[k]]
        \o [k \in 1..Len(unknown) |->
              [chat_message_id |-> unknown[k], processed |-> TRUE]]

\* db.mark_messages_processed(ids): sets the flag of the rows of these ids
MarkMessagesProcessed(log, ids) ==
  [k \in 1..Len(log) |->
     IF log[k].chat_message_id \in Range(ids)
     THEN [log[k] EXCEPT !.processed = TRUE]
     ELSE log[k]]

\* variant of the clear: the table is emptied
ClearProcessedLogEntries_All(log) == << >>

\* db.clear_processed_log_entries(): deletes the rows whose flag is set
ClearProcessedLogEntries(log) ==
  LET Pending(r) == ~r.processed
  IN  SelectSeq(log, Pending)

\* variant of the save: at most one row per Message (an INSERT that a
\* uniqueness rule on the Message turns into a no-op)
SaveMessageAnalytics_Unique(rows, row) ==
  IF \E k \in 1..Len(rows) : rows[k].msg_id = row.msg_id
  THEN rows
  ELSE Append(rows, row)

\* db.save_message_analytics(...): a plain INSERT of one row
SaveMessageAnalytics(rows, row) == Append(rows, row)

\* get_session_messages: the rows of one session, ORDER BY timestamp ASC
GetSessionMessages(msgs, session_id) ==
  LET OfSession(m) == m.session_id = session_id
  IN  SelectSeq(msgs, OfSession)

\* variant of the row: the sequence number is the id of the Message (a
\* numbering over the whole store, not over the batch)
AnalyticsRow_MessageId(message, text, role, idx, analysis) ==
  [msg_id            |-> message.id,
   session_id        |-> message.session_id,
   message           |-> text,
   role              |-> role,
   sequence_number   |-> message.id,
   message_length    |-> WordCount(text),
   sentiment_score   |-> analysis.sentiment_score,
   sentiment_label   |-> analysis.sentiment_label,
   emotion_label     |-> analysis.emotion_label,
   toxicity_flag     |-> FALSE,
   contains_keywords |-> analysis.contains_keywords]

\* the row of message_analytics built from a message and its analysis;
\* msg_id is history (the table has no such column): the Message analyzed
AnalyticsRow(message, text, role, idx, analysis) ==
  [msg_id            |-> message.id,
   session_id        |-> message.session_id,
   message           |-> text,
   role              |-> role,
   sequence_number   |-> idx,
   message_length    |-> WordCount(text),
   sentiment_score   |-> analysis.sentiment_score,
   sentiment_label   |-> analysis.sentiment_label,
   emotion_label     |-> analysis.emotion_label,
   toxicity_flag     |-> FALSE,
   contains_keywords |-> analysis.contains_keywords]

(***************************************************************************)
(* UserDatabase.save_chat_message: one transaction that inserts the        *)
(* session row (OR IGNORE) and the message row, then commits.  The INSERT  *)
(* into chat_messages fires the trigger inside the same statement.         *)
(***************************************************************************)
NoTxn == [open |-> FALSE, sessions |-> {}, messages |-> << >>, log |-> << >>]

\* variant of the table: chat_messages is created without the CHECK
\* constraint on role, any role is stored
SaveChatMessageExecute_NoCheck(m, trigger_ok) ==
  /\ ~txn.open
  /\ next_id <= MaxMsgs
  /\ IF trigger_ok
     THEN /\ txn' = [open     |-> TRUE,
                     sessions |-> {m.session_id},
                     messages |-> <<[id         |-> next_id,
                                     session_id |-> m.session_id,
                                     role       |-> m.role,
                                     content    |-> m.content]>>,
                     log      |-> TriggerLogChatMessageInserts(next_id)]
          /\ save_result' = "running"
     ELSE /\ txn' = NoTxn
          /\ save_result' = "False"
  /\ UNCHANGED <<chat_messages, chat_sessions, next_id, log_inserts,
                 message_analytics, proc, sess, model_configured,
                 ever_logged, terminated_runs, session_runs, analytics_data,
                 parse_result, marked_unknown, mig>>

\* the two cursor.execute calls.  The CHECK constraint on role or a failing
\* trigger makes the statement raise: the connection rolls back and the
\* method returns False.
SaveChatMessageExecute(m, trigger_ok) ==
  /\ ~txn.open
  /\ next_id <= MaxMsgs
  /\ IF m.role \in ValidRoles /\ trigger_ok
     THEN /\ txn' = [open     |-> TRUE,
                     sessions |-> {m.session_id},
                     messages |-> <<[id         |-> next_id,
                                     session_id |-> m.session_id,
                                     role       |-> m.role,
                                     content    |-> m.content]>>,
                     log      |-> TriggerLogChatMessageInserts(next_id)]
          /\ save_result' = "running"
     ELSE /\ txn' = NoTxn
          /\ save_result' = "False"
  /\ UNCHANGED <<chat_messages, chat_sessions, next_id, log_inserts,
                 message_analytics, proc, sess, model_configured,
                 ever_logged, terminated_runs, session_runs, analytics_data,
                 parse_result, marked_unknown, mig>>

\* variant of the commit: the queue row is not part of the transaction of
\* the message (it is left to a later, separate call)
CommittedLog_Separate(log, t) == log

\* the rows that conn.commit() makes visible in log_inserts
CommittedLog(log, t) == log \o t.log

\* conn.commit(): everything the transaction wrote becomes visible at once
SaveChatMessageCommit ==
  /\ txn.open
  /\ chat_sessions' = chat_sessions \cup txn.sessions
  /\ chat_messages' = chat_messages \o txn.messages
  /\ log_inserts' = CommittedLog(log_inserts, txn)
  /\ ever_logged' = ever_logged \cup
                      {r.chat_message_id : r \in Range(CommittedLog(<< >>, txn))}
  /\ next_id' = next_id + 1
  /\ txn' = NoTxn
  /\ save_result' = "True"
  /\ UNCHANGED <<message_analytics, proc, sess, model_configured, terminated_runs,
                 session_runs, analytics_data, parse_result, marked_unknown,
                 mig>>

\* the transaction ends without a commit (commit raises, or the process
\* dies between the INSERT and the commit): nothing it wrote is visible
SaveChatMessageRollback ==
  /\ txn.open
  /\ txn' = NoTxn
  /\ save_result' = "False"
  /\ UNCHANGED <<chat_messages, chat_sessions, next_id, log_inserts,
                 message_analytics, proc, sess, model_configured,
                 ever_logged, terminated_runs, session_runs, analytics_data,
                 parse_result, marked_unknown, mig>>

(***************************************************************************)
(* process_unprocessed_messages                                            *)
(***************************************************************************)
\* history of the calls of one run: op is "analyze", "save", "skip",
\* "mark" or "clear"; id the Message, ids the argument of mark, out the
\* outcome of the call
Call(op, id, ids, out) == [op |-> op, id |-> id, ids |-> ids, out |-> out]

NoResult ==
  [kind |-> "none", success |-> FALSE, error |-> FALSE,
   processed_count |-> 0, total_unprocessed |-> 0, total_retrieved |-> 0,
   marked_processed |-> 0]

\* variant of the early return: reported like the failed fetch of 452-458
EmptyResult_Failure ==
  [kind |-> "empty", success |-> FALSE, error |-> TRUE,
   processed_count |-> 0, total_unprocessed |-> 0, total_retrieved |-> 0,
   marked_processed |-> 0]

\* lines 440-446
EmptyResult ==
  [kind |-> "empty", success |-> TRUE, error |-> FALSE,
   processed_count |-> 0, total_unprocessed |-> 0, total_retrieved |-> 0,
   marked_processed |-> 0]

\* variant of the failed fetch: reported like the outer except of 553-560,
\* with no count of the pending ids
FetchFailedResult_Zero(unprocessed_ids) ==
  [kind |-> "nofetch", success |-> FALSE, error |-> TRUE,
   processed_count |-> 0, total_unprocessed |-> 0,
   total_retrieved |-> 0, marked_processed |-> 0]

\* lines 452-458
FetchFailedResult(unprocessed_ids) ==
  [kind |-> "nofetch", success |-> FALSE, error |-> TRUE,
   processed_count |-> 0, total_unprocessed |-> Len(unprocessed_ids),
   total_retrieved |-> 0, marked_processed |-> 0]

\* variant of the result: success when an id was handled, saved or not
FinalResult_Handled(l) ==
  [kind |-> "done", success |-> l.processed_message_ids # << >>,
   error |-> ~(l.processed_message_ids # << >>),
   processed_count |-> l.processed_count,
   total_unprocessed |-> Len(l.unprocessed_ids),
   total_retrieved |-> Len(l.messages),
   marked_processed |-> Len(l.processed_message_ids)]

\* variant of the result: marked_processed reports the Messages retrieved,
\* whether or not their ids were put on the list
FinalResult_Retrieved(l) ==
  [kind |-> "done", success |-> l.processed_count > 0,
   error |-> ~(l.processed_count > 0),
   processed_count |-> l.processed_count,
   total_unprocessed |-> Len(l.unprocessed_ids),
   total_retrieved |-> Len(l.messages),
   marked_processed |-> Len(l.messages)]

\* lines 540-551
FinalResult(l) ==
  [kind |-> "done", success |-> l.processed_count > 0,
   error |-> ~(l.processed_count > 0),
   processed_count |-> l.processed_count,
   total_unprocessed |-> Len(l.unprocessed_ids),
   total_retrieved |-> Len(l.messages),
   marked_processed |-> Len(l.processed_message_ids)]

IdleProc ==
  [pc |-> "idle", unprocessed_ids |-> << >>, messages |-> << >>, idx |-> 0,
   processed_count |-> 0, processed_message_ids |-> << >>,
   result |-> NoResult, calls |-> << >>]

\* lines 436-446: step 1, and the return when nothing is pending
ProcessStart(p) ==
  /\ proc[p].pc = "idle"
  /\ LET unprocessed_ids == GetUnprocessedMessageIds(log_inserts)
     IN  proc' = [proc EXCEPT ![p] =
                    IF unprocessed_ids = << >>
                    THEN [IdleProc EXCEPT !.result = EmptyResult]
                    ELSE [IdleProc EXCEPT !.pc = "fetch",
                                          !.unprocessed_ids = unprocessed_ids]]
  /\ UNCHANGED <<chat_messages, chat_sessions, next_id, log_inserts,
                 message_analytics, txn, save_result, sess, model_configured,
                 ever_logged, terminated_runs, session_runs, analytics_data,
                 parse_result, marked_unknown, mig>>

\* variant of step 2: the ids read in step 1 are looked up in the queue
\* again and only those still pending are fetched
ProcessFetch_StillPending(p) ==
  /\ proc[p].pc = "fetch"
  /\ LET StillPending(i) == i \in Range(GetUnprocessedMessageIds(log_inserts))
         messages == GetChatMessagesByIds(chat_messages,
                       SelectSeq(proc[p].unprocessed_ids, StillPending))
     IN  proc' = [proc EXCEPT ![p] =
                    IF messages = << >>
                    THEN [@ EXCEPT !.pc = "idle",
                                   !.result = FetchFailedResult(
                                     proc[p].unprocessed_ids)]
                    ELSE [@ EXCEPT !.pc = "loop", !.messages = messages,
                                   !.idx = 1]]
  /\ UNCHANGED <<chat_messages, chat_sessions, next_id, log_inserts,
                 message_analytics, txn, save_result, sess, model_configured,
                 ever_logged, terminated_runs, session_runs, analytics_data,
                 parse_result, marked_unknown, mig>>

\* lines 448-465: step 2, and the return when no row was retrieved
ProcessFetch(p) ==
  /\ proc[p].pc = "fetch"
  /\ LET messages == GetChatMessagesByIds(chat_messages,
                                          proc[p].unprocessed_ids)
     IN  proc' = [proc EXCEPT ![p] =
                    IF messages = << >>
                    THEN [@ EXCEPT !.pc = "idle",
                                   !.result = FetchFailedResult(
                                     proc[p].unprocessed_ids)]
                    ELSE [@ EXCEPT !.pc = "loop", !.messages = messages,
                                   !.idx = 1]]
  /\ UNCHANGED <<chat_messages, chat_sessions, next_id, log_inserts,
                 message_analytics, txn, save_result, sess, model_configured,
                 ever_logged, terminated_runs, session_runs, analytics_data,
                 parse_result, marked_unknown, mig>>

\* lines 470-472: pipeline.parser.parse_chat_message_content(content),
\* tabulated over the contents that the live session writes
ParsedContent ==
  [content \in {m.content : m \in SampleMessages} |->
     ParseChatMessageContent(content)]

\* line 475: parsed_message or message["content"]
MessageText(message) ==
  LET parsed == ParsedContent[message.content]
  IN  IF parsed.text # << >> THEN parsed.text ELSE message.content

\* variant of the role: the stored role of the Message, whatever the parser
\* returns
MessageRole_Stored(message) == message.role

\* line 476: parsed_role or message["role"]
MessageRole(message) ==
  LET parsed == ParsedContent[message.content]
  IN  IF parsed.role # None THEN parsed.role ELSE message.role

\* variant of the skip: messages that are not of role user are skipped too
IsEmptyMessage_UserOnly(message) ==
  Strip(MessageText(message)) = << >> \/ MessageRole(message) # UserRole

\* line 479: not message_text.strip()
IsEmptyMessage(message) == Strip(MessageText(message)) = << >>

\* variant of the loop: a skipped message is not put on the list (no append
\* before the continue of line 482)
ProcessedIdsAfter_NoSkip(processed_message_ids, id, out) ==
  IF out \in {"ok", "raise"}
  THEN Append(processed_message_ids, id)
  ELSE processed_message_ids

\* variant of the loop: the except branch only logs (no append at 518)
ProcessedIdsAfter_NoRaise(processed_message_ids, id, out) ==
  IF out \in {"skip", "ok"}
  THEN Append(processed_message_ids, id)
  ELSE processed_message_ids

\* processed_message_ids after one message: the id is appended when the
\* message is skipped (481), saved (504) or raised (518), and not when the
\* save reports failure (508-511)
ProcessedIdsAfter(processed_message_ids, id, out) ==
  IF out \in {"skip", "ok", "raise"}
  THEN Append(processed_message_ids, id)
  ELSE processed_message_ids

\* variant of the loop: a Message whose save reports failure is handled
\* again (the index advances only past a Message that was skipped, saved
\* or raised)
ProcessMessage_Retry(p, response, save_out) ==
  /\ proc[p].pc = "loop"
  /\ LET l        == proc[p]
         message  == l.messages[l.idx]
         text     == MessageText(message)
         role     == MessageRole(message)
         empty    == IsEmptyMessage(message)
         out      == IF empty THEN "skip" ELSE save_out
         analysis == AnalyzeMessage(model_configured, response)
         row      == AnalyticsRow(message, text, role, l.idx, analysis)
         history  == IF empty
                     THEN <<Call("skip", message.id, << >>, "skip")>>
                     ELSE <<Call("analyze", message.id, << >>, "ok"),
                            Call("save", message.id, << >>, save_out)>>
     IN  /\ message_analytics' =
              IF out = "ok" THEN SaveMessageAnalytics(message_analytics, row)
              ELSE message_analytics
         /\ proc' = [proc EXCEPT ![p] =
              [@ EXCEPT
                 !.processed_count = IF out = "ok" THEN @ + 1 ELSE @,
                 !.processed_message_ids =
                    ProcessedIdsAfter(@, message.id, out),
                 !.calls = @ \o history,
                 !.idx = IF out = "false" THEN @ ELSE @ + 1,
                 !.pc = IF out # "false" /\ l.idx = Len(l.messages)
                        THEN "mark" ELSE "loop"]]
  /\ UNCHANGED <<chat_messages, chat_sessions, next_id, log_inserts, txn,
                 save_result, sess, model_configured, ever_logged, terminated_runs,
                 session_runs, analytics_data, parse_result, marked_unknown,
                 mig>>

\* lines 467-519: one iteration of the loop.  response is what the external
\* capability answers, save_out what db.save_message_analytics does: "ok"
\* (row inserted, True), "false" (no row, False) or "raise" (no row).
ProcessMessage(p, response, save_out) ==
  /\ proc[p].pc = "loop"
  /\ LET l        == proc[p]
         message  == l.messages[l.idx]
         text     == MessageText(message)
         role     == MessageRole(message)
         empty    == IsEmptyMessage(message)
         out      == IF empty THEN "skip" ELSE save_out
         analysis == AnalyzeMessage(model_configured, response)
         row      == AnalyticsRow(message, text, role, l.idx, analysis)
         history  == IF empty
                     THEN <<Call("skip", message.id, << >>, "skip")>>
                     ELSE <<Call("analyze", message.id, << >>, "ok"),
                            Call("save", message.id, << >>, save_out)>>
     IN  /\ message_analytics' =
              IF out = "ok" THEN SaveMessageAnalytics(message_analytics, row)
              ELSE message_analytics
         /\ proc' = [proc EXCEPT ![p] =
              [@ EXCEPT
                 !.processed_count = IF out = "ok" THEN @ + 1 ELSE @,
                 !.processed_message_ids =
                    ProcessedIdsAfter(@, message.id, out),
                 !.calls = @ \o history,
                 !.idx = @ + 1,
                 !.pc = IF l.idx = Len(l.messages) THEN "mark" ELSE "loop"]]
  /\ UNCHANGED <<chat_messages, chat_sessions, next_id, log_inserts, txn,
                 save_result, sess, model_configured, ever_logged, terminated_runs,
                 session_runs, analytics_data, parse_result, marked_unknown,
                 mig>>

\* lines 521-525, and 536-551 when no id was handled: step 4
ProcessMark(p, mark_ok) ==
  /\ proc[p].pc = "mark"
  /\ LET l == proc[p]
     IN  IF l.processed_message_ids # << >>
         THEN /\ log_inserts' =
                   IF mark_ok
                   THEN MarkMessagesProcessed(log_inserts,
                                              l.processed_message_ids)
                   ELSE log_inserts
              /\ proc' = [proc EXCEPT ![p] =
                   [@ EXCEPT !.pc = "clear",
                             !.calls = Append(@,
                                Call("mark", 0, l.processed_message_ids,
                                     IF mark_ok THEN "ok" ELSE "false"))]]
              /\ marked_unknown' =
                   IF mark_ok
                   THEN marked_unknown \cup
                          {i \in Range(l.processed_message_ids) :
                             \A r \in Range(log_inserts) :
                               r.chat_message_id # i}
                   ELSE marked_unknown
         ELSE /\ log_inserts' = log_inserts
              /\ proc' = [proc EXCEPT ![p] =
                   [@ EXCEPT !.pc = "idle", !.result = FinalResult(l)]]
              /\ marked_unknown' = marked_unknown
  /\ UNCHANGED <<chat_messages, chat_sessions, next_id, message_analytics,
                 txn, save_result, sess, model_configured, ever_logged,
                 terminated_runs, session_runs, analytics_data, parse_result,
                 mig>>

\* variant of the clear: the Messages whose entries are cleared are deleted
\* from chat_messages with them
ProcessClear_Purge(p, clear_ok) ==
  /\ proc[p].pc = "clear"
  /\ log_inserts' = IF clear_ok THEN ClearProcessedLogEntries(log_inserts)
                    ELSE log_inserts
  /\ chat_messages' =
       LET Kept(m) == \A r \in Range(log_inserts) :
                        r.chat_message_id = m.id => ~r.processed
       IN  IF clear_ok THEN SelectSeq(chat_messages, Kept)
           ELSE chat_messages
  /\ proc' = [proc EXCEPT ![p] =
       [@ EXCEPT !.pc = "idle",
                 !.result = FinalResult(proc[p]),
                 !.calls = Append(@, Call("clear", 0, << >>,
                                        IF clear_ok THEN "ok" ELSE "false"))]]
  /\ UNCHANGED <<chat_sessions, next_id, message_analytics,
                 txn, save_result, sess, model_configured, ever_logged,
                 terminated_runs, session_runs, analytics_data, parse_result,
                 marked_unknown, mig>>

\* lines 527-551: the clear, and the return
ProcessClear(p, clear_ok) ==
  /\ proc[p].pc = "clear"
  /\ log_inserts' = IF clear_ok THEN ClearProcessedLogEntries(log_inserts)
                    ELSE log_inserts
  /\ proc' = [proc EXCEPT ![p] =
       [@ EXCEPT !.pc = "idle",
                 !.result = FinalResult(proc[p]),
                 !.calls = Append(@, Call("clear", 0, << >>,
                                        IF clear_ok THEN "ok" ELSE "false"))]]
  /\ UNCHANGED <<chat_messages, chat_sessions, next_id, message_analytics,
                 txn, save_result, sess, model_configured, ever_logged,
                 terminated_runs, session_runs, analytics_data, parse_result,
                 marked_unknown, mig>>

\* variant of the outer except: the exception is swallowed and the call
\* reports success
ExceptionResult_Swallowed ==
  [kind |-> "exception", success |-> TRUE, error |-> FALSE,
   processed_count |-> 0, total_unprocessed |-> 0, total_retrieved |-> 0,
   marked_processed |-> 0]

\* lines 553-560: the result of the outer except
ExceptionResult ==
  [kind |-> "exception", success |-> FALSE, error |-> TRUE,
   processed_count |-> 0, total_unprocessed |-> 0, total_retrieved |-> 0,
   marked_processed |-> 0]

\* lines 448-458 when the storage returns no row for the ids of the queue
\* (get_chat_messages_by_ids fails, or the rows are gone)
ProcessFetchEmpty(p) ==
  /\ proc[p].pc = "fetch"
  /\ proc' = [proc EXCEPT ![p] =
       [@ EXCEPT !.pc = "idle",
                 !.result = FetchFailedResult(proc[p].unprocessed_ids)]]
  /\ UNCHANGED <<chat_messages, chat_sessions, next_id, log_inserts,
                 message_analytics, txn, save_result, sess, model_configured,
                 ever_logged, terminated_runs, session_runs, analytics_data,
                 parse_result, marked_unknown, mig>>

\* lines 553-560: a storage call outside the per-message try raises
\* (get_unprocessed_message_ids at 437, get_chat_messages_by_ids at 449,
\* mark_messages_processed at 523, clear_processed_log_entries at 528);
\* the call has changed nothing
ProcessStorageRaise(p) ==
  /\ proc[p].pc \in {"idle", "fetch", "mark", "clear"}
  /\ proc[p].pc = "mark" => proc[p].processed_message_ids # << >>
  /\ proc' = [proc EXCEPT ![p] =
       [(IF proc[p].pc = "idle" THEN IdleProc ELSE @) EXCEPT
          !.pc = "idle", !.result = ExceptionResult]]
  /\ UNCHANGED <<chat_messages, chat_sessions, next_id, log_inserts,
                 message_analytics, txn, save_result, sess, model_configured,
                 ever_logged, terminated_runs, session_runs, analytics_data,
                 parse_result, marked_unknown, mig>>

\* the ids of the Messages for which a run has inserted a row
SavedIds(calls) ==
  LET Saved(c) == c.op = "save" /\ c.out = "ok"
      saved    == SelectSeq(calls, Saved)
  IN  [k \in 1..Len(saved) |-> saved[k].id]

\* the run is terminated from outside before it returns; its locals are
\* kept as history of the terminated run until the next run starts
ProcessTerminate(p) ==
  /\ proc[p].pc # "idle"
  /\ Len(terminated_runs) < MaxCrashes
  /\ terminated_runs' = Append(terminated_runs, SavedIds(proc[p].calls))
  /\ proc' = [proc EXCEPT ![p] = [@ EXCEPT !.pc = "idle",
                                           !.result =
                                             [NoResult EXCEPT
                                                !.kind = "terminated"]]]
  /\ UNCHANGED <<chat_messages, chat_sessions, next_id, log_inserts,
                 message_analytics, txn, save_result, sess, model_configured,
                 ever_logged, session_runs, analytics_data, parse_result,
                 marked_unknown, mig>>

(***************************************************************************)
(* process_session_analytics                                               *)
(***************************************************************************)
NoSessionResult ==
  [kind |-> "none", success |-> FALSE, error |-> FALSE,
   processed_count |-> 0, total_messages |-> 0, user_messages |-> 0]

IdleSession ==
  [pc |-> "idle", session_id |-> "", total_messages |-> 0,
   user_messages |-> << >>, idx |-> 0, processed_count |-> 0,
   result |-> NoSessionResult, calls |-> << >>]

\* lines 264-304: keeps the messages whose parsed role or stored role is
\* user, with the parsed text (the raw content when it is empty)
RECURSIVE ProcessUserMessages(_)
ProcessUserMessages(messages) ==
  IF messages = << >> THEN << >>
  ELSE LET message == Head(messages)
           parsed  == ParseChatMessageContent(message.content)
       IN  IF parsed.role = UserRole \/ message.role = UserRole
           THEN <<[id         |-> message.id,
                   session_id |-> message.session_id,
                   role       |-> UserRole,
                   message    |-> IF parsed.text # << >> THEN parsed.text
                                  ELSE message.content]>>
                \o ProcessUserMessages(Tail(messages))
           ELSE ProcessUserMessages(Tail(messages))

\* lines 400-407
SessionFinalResult(l, processed_count) ==
  [kind |-> "done", success |-> processed_count > 0,
   error |-> ~(processed_count > 0),
   processed_count |-> processed_count,
   total_messages |-> l.total_messages,
   user_messages |-> Len(l.user_messages)]

\* lines 363-390: steps 1 and 2, and the two early returns
SessionStart(session_id) ==
  /\ sess.pc = "idle"
  /\ session_runs < MaxSessionRuns
  /\ session_runs' = session_runs + 1
  /\ LET all_messages  == GetSessionMessages(chat_messages, session_id)
         user_messages == ProcessUserMessages(all_messages)
     IN  sess' =
           IF all_messages = << >> \/ user_messages = << >>
           THEN [IdleSession EXCEPT
                   !.session_id = session_id,
                   !.total_messages = Len(all_messages),
                   !.result = [NoSessionResult EXCEPT
                                 !.kind = IF all_messages = << >>
                                          THEN "nomessages" ELSE "nouser",
                                 !.error = TRUE]]
           ELSE [IdleSession EXCEPT
                   !.pc = "loop",
                   !.session_id = session_id,
                   !.total_messages = Len(all_messages),
                   !.user_messages = user_messages,
                   !.idx = 1]
  /\ UNCHANGED <<chat_messages, chat_sessions, next_id, log_inserts,
                 message_analytics, txn, save_result, proc, model_configured,
                 ever_logged, terminated_runs, analytics_data, parse_result,
                 marked_unknown, mig>>

\* lines 227-262 and 369-375: the query of get_session_messages fails, the
\* method returns [] and the entry point returns its first early result
SessionStartStorageFailure(session_id) ==
  /\ sess.pc = "idle"
  /\ session_runs < MaxSessionRuns
  /\ session_runs' = session_runs + 1
  /\ sess' = [IdleSession EXCEPT
                !.session_id = session_id,
                !.result = [NoSessionResult EXCEPT !.kind = "nomessages",
                                                   !.error = TRUE]]
  /\ UNCHANGED <<chat_messages, chat_sessions, next_id, log_inserts,
                 message_analytics, txn, save_result, proc, model_configured,
                 ever_logged, terminated_runs, analytics_data, parse_result,
                 marked_unknown, mig>>

\* variant of the iteration: the entry of the saved Message is marked
\* processed in the queue
SessionMessage_Marking(response, save_out) ==
  /\ sess.pc = "loop"
  /\ LET message  == sess.user_messages[sess.idx]
         analysis == AnalyzeMessage(model_configured, response)
         row      == AnalyticsRow(message, message.message, message.role,
                                  sess.idx, analysis)
         count    == IF save_out = "ok" THEN sess.processed_count + 1
                     ELSE sess.processed_count
         last     == sess.idx = Len(sess.user_messages)
     IN  /\ message_analytics' =
              IF save_out = "ok"
              THEN SaveMessageAnalytics(message_analytics, row)
              ELSE message_analytics
         /\ sess' = [sess EXCEPT
              !.processed_count = count,
              !.idx = @ + 1,
              !.calls = @ \o <<Call("analyze", message.id, << >>, "ok"),
                               Call("save", message.id, << >>, save_out)>>,
              !.pc = IF last THEN "idle" ELSE "loop",
              !.result = IF last THEN SessionFinalResult(sess, count)
                         ELSE @]
  /\ log_inserts' =
       IF save_out = "ok"
       THEN MarkMessagesProcessed(log_inserts,
                                  <<sess.user_messages[sess.idx].id>>)
       ELSE log_inserts
  /\ UNCHANGED <<chat_messages, chat_sessions, next_id, txn,
                 save_result, proc, model_configured, ever_logged, terminated_runs,
                 session_runs, analytics_data, parse_result, marked_unknown,
                 mig>>

\* lines 318-350 and 395-407: one iteration of analyze_and_save_messages,
\* and the return after the last one
SessionMessage(response, save_out) ==
  /\ sess.pc = "loop"
  /\ LET message  == sess.user_messages[sess.idx]
         analysis == AnalyzeMessage(model_configured, response)
         row      == AnalyticsRow(message, message.message, message.role,
                                  sess.idx, analysis)
         count    == IF save_out = "ok" THEN sess.processed_count + 1
                     ELSE sess.processed_count
         last     == sess.idx = Len(sess.user_messages)
     IN  /\ message_analytics' =
              IF save_out = "ok"
              THEN SaveMessageAnalytics(message_analytics, row)
              ELSE message_analytics
         /\ sess' = [sess EXCEPT
              !.processed_count = count,
              !.idx = @ + 1,
              !.calls = @ \o <<Call("analyze", message.id, << >>, "ok"),
                               Call("save", message.id, << >>, save_out)>>,
              !.pc = IF last THEN "idle" ELSE "loop",
              !.result = IF last THEN SessionFinalResult(sess, count)
                         ELSE @]
  /\ UNCHANGED <<chat_messages, chat_sessions, next_id, log_inserts, txn,
                 save_result, proc, model_configured, ever_logged, terminated_runs,
                 session_runs, analytics_data, parse_result, marked_unknown,
                 mig>>

(***************************************************************************)
(* migrate_chat_messages.run_migration                                     *)
(***************************************************************************)
\* lines 27-36: SELECT id FROM chat_messages ORDER BY id
GetAllChatMessageIds(msgs) == [k \in 1..Len(msgs) |-> msgs[k].id]

\* lines 39-48: SELECT chat_message_id FROM log_inserts
GetExistingLogMessageIds(log) == {r.chat_message_id : r \in Range(log)}

\* variant of the insert: a plain INSERT, one row per id whether or not
\* log_inserts holds a row of that id
InsertMissingMessageIds_Plain(log, missing_ids) ==
  log \o [k \in 1..Len(missing_ids) |->
            [chat_message_id |-> missing_ids[k], processed |-> FALSE]]

\* lines 51-78: INSERT OR IGNORE of one unprocessed row per id; an id that
\* has a row in log_inserts is ignored (the message id is the identity of
\* the rows of log_inserts)
InsertMissingMessageIds(log, missing_ids) ==
  LET Absent(msg_id) == \A r \in Range(log) : r.chat_message_id # msg_id
      inserted       == SelectSeq(missing_ids, Absent)
  IN  log \o [k \in 1..Len(inserted) |->
                [chat_message_id |-> inserted[k], processed |-> FALSE]]

\* lines 114-177: the ids of chat_messages that have no log_inserts row
\* are inserted into log_inserts
RunMigration ==
  /\ LET all_message_ids  == GetAllChatMessageIds(chat_messages)
         existing_log_ids == GetExistingLogMessageIds(log_inserts)
         Missing(msg_id)  == msg_id \notin existing_log_ids
         missing_ids      == SelectSeq(all_message_ids, Missing)
     IN  /\ log_inserts' = InsertMissingMessageIds(log_inserts, missing_ids)
         /\ ever_logged' = ever_logged \cup Range(missing_ids)
  /\ UNCHANGED <<chat_messages, chat_sessions, next_id, message_analytics,
                 txn, save_result, proc, sess, model_configured,
                 terminated_runs, session_runs, analytics_data, parse_result,
                 marked_unknown, mig>>

\* invocations of the migration script
Migs == {1, 2}

\* the locals of run_migration; they are kept after the return as history
\* of the last invocation
IdleMigration ==
  [pc |-> "idle", all_message_ids |-> << >>, missing_ids |-> << >>,
   result |-> "none"]

\* lines 129-136: step 2, SELECT id FROM chat_messages ORDER BY id in a
\* connection of its own, and the return when there is no Message
MigrationReadMessages(g) ==
  /\ mig[g].pc = "idle"
  /\ LET all_message_ids == GetAllChatMessageIds(chat_messages)
     IN  mig' = [mig EXCEPT ![g] =
                   IF all_message_ids = << >>
                   THEN [IdleMigration EXCEPT !.result = "True"]
                   ELSE [IdleMigration EXCEPT
                           !.pc = "log",
                           !.all_message_ids = all_message_ids]]
  /\ UNCHANGED <<chat_messages, chat_sessions, next_id, log_inserts,
                 message_analytics, txn, save_result, proc, sess,
                 model_configured, ever_logged, terminated_runs,
                 session_runs, analytics_data, parse_result, marked_unknown>>

\* lines 138-151: steps 3 and 4, SELECT chat_message_id FROM log_inserts in
\* a second connection, the ids without a row, and the return when there
\* is none
MigrationReadLog(g) ==
  /\ mig[g].pc = "log"
  /\ LET existing_log_ids == GetExistingLogMessageIds(log_inserts)
         Missing(msg_id)  == msg_id \notin existing_log_ids
         missing_ids      == SelectSeq(mig[g].all_message_ids, Missing)
     IN  mig' = [mig EXCEPT ![g] =
                   IF missing_ids = << >>
                   THEN [@ EXCEPT !.pc = "idle", !.result = "True"]
                   ELSE [@ EXCEPT !.pc = "insert",
                                  !.missing_ids = missing_ids]]
  /\ UNCHANGED <<chat_messages, chat_sessions, next_id, log_inserts,
                 message_analytics, txn, save_result, proc, sess,
                 model_configured, ever_logged, terminated_runs,
                 session_runs, analytics_data, parse_result, marked_unknown>>

\* lines 153-177: step 5, insert_missing_message_ids in a third connection,
\* and the return
MigrationInsert(g) ==
  /\ mig[g].pc = "insert"
  /\ log_inserts' = InsertMissingMessageIds(log_inserts, mig[g].missing_ids)
  /\ ever_logged' = ever_logged \cup Range(mig[g].missing_ids)
  /\ mig' = [mig EXCEPT ![g] = [@ EXCEPT !.pc = "idle", !.result = "True"]]
  /\ UNCHANGED <<chat_messages, chat_sessions, next_id, message_analytics,
                 txn, save_result, proc, sess, model_configured,
                 terminated_runs, session_runs, analytics_data, parse_result,
                 marked_unknown>>

(***************************************************************************)
(* server.delete_chat_session                                              *)
(***************************************************************************)
\* DELETE FROM chat_messages WHERE ... session_id = ?
DeleteSessionMessages(msgs, session_id) ==
  LET Kept(m) == m.session_id # session_id
  IN  SelectSeq(msgs, Kept)

\* variant of the deletion: the rows of log_inserts that reference the
\* deleted Messages are deleted with them
DeletedSessionLog_Cascade(log, msgs, session_id) ==
  LET Kept(r) == \A m \in Range(msgs) :
                   m.id = r.chat_message_id => m.session_id # session_id
  IN  SelectSeq(log, Kept)

\* log_inserts after the two DELETE statements: no statement names the
\* table, and the connection does not enable foreign keys
DeletedSessionLog(log, msgs, session_id) == log

\* variant of the deletion: the rows of message_analytics of the session
\* are deleted with it
DeletedSessionAnalytics_Cascade(rows, session_id) ==
  LET Kept(r) == r.session_id # session_id
  IN  SelectSeq(rows, Kept)

\* message_analytics after the two DELETE statements: no statement names
\* the table
DeletedSessionAnalytics(rows, session_id) == rows

\* lines 328-351: both DELETE statements and the commit, one transaction
DeleteChatSession(session_id) ==
  /\ chat_messages' = DeleteSessionMessages(chat_messages, session_id)
  /\ chat_sessions' = chat_sessions \ {session_id}
  /\ log_inserts' = DeletedSessionLog(log_inserts, chat_messages, session_id)
  /\ message_analytics' =
       DeletedSessionAnalytics(message_analytics, session_id)
  /\ UNCHANGED <<next_id, txn, save_result, proc, sess,
                 model_configured, ever_logged, terminated_runs, session_runs,
                 analytics_data, parse_result, marked_unknown, mig>>

(***************************************************************************)
(* get_analytics_data: three SELECT statements on message_analytics        *)
(***************************************************************************)
\* nothing was returned yet
NoAnalyticsData ==
  [success |-> FALSE, called |-> FALSE, total_messages |-> 0,
   sentiment_data |-> {}, keyword_frequency |-> {},
   latest_analytics |-> << >>]

\* lines 578-606: the columns shown of the rows, newest first
LatestAnalytics(rows) ==
  [k \in 1..Len(rows) |->
     LET r == rows[Len(rows) + 1 - k]
     IN  [message         |-> r.message,
          sentiment_label |-> r.sentiment_label,
          emotion_label   |-> r.emotion_label,
          sentiment_score |-> r.sentiment_score,
          keywords        |-> r.contains_keywords]]

\* the sum of the scores of the rows at the positions S
RECURSIVE ScoreSum(_, _)
ScoreSum(rows, S) ==
  IF S = {} THEN 0
  ELSE LET k == Min(S)
       IN  rows[k].sentiment_score + ScoreSum(rows, S \ {k})

\* lines 608-627: GROUP BY sentiment_label with COUNT(*) and the scores
\* that AVG averages (avg_score is score_sum / count)
SentimentData(rows) ==
  {[sentiment |-> label,
    count     |-> Cardinality({k \in 1..Len(rows) :
                                 rows[k].sentiment_label = label}),
    score_sum |-> ScoreSum(rows, {k \in 1..Len(rows) :
                                    rows[k].sentiment_label = label})] :
     label \in {r.sentiment_label : r \in Range(rows)}}

\* lines 629-650: Counter(all_keywords) over the keyword lists of the rows
KeywordFrequency(rows) ==
  LET Occurrences(kw) ==
        {<<k, j>> \in (1..Len(rows)) \X (1..MaxKeywords) :
           /\ j <= Len(rows[k].contains_keywords)
           /\ rows[k].contains_keywords[j] = kw}
      all_keywords ==
        UNION {Range(r.contains_keywords) : r \in Range(rows)}
  IN  {[keyword |-> kw, count |-> Cardinality(Occurrences(kw))] :
         kw \in all_keywords}

\* lines 656-662
AnalyticsData(rows) ==
  [success |-> TRUE, called |-> TRUE, total_messages |-> Len(rows),
   sentiment_data |-> SentimentData(rows),
   keyword_frequency |-> KeywordFrequency(rows),
   latest_analytics |-> LatestAnalytics(rows)]

\* lines 563-662: the queries succeed
GetAnalyticsData ==
  /\ analytics_data' = AnalyticsData(message_analytics)
  /\ UNCHANGED <<chat_messages, chat_sessions, next_id, log_inserts,
                 message_analytics, txn, save_result, proc, sess,
                 model_configured, ever_logged, terminated_runs,
                 session_runs, parse_result, marked_unknown, mig>>

\* lines 664-672: a query raises
GetAnalyticsDataFailure ==
  /\ analytics_data' = [NoAnalyticsData EXCEPT !.called = TRUE]
  /\ UNCHANGED <<chat_messages, chat_sessions, next_id, log_inserts,
                 message_analytics, txn, save_result, proc, sess,
                 model_configured, ever_logged, terminated_runs,
                 session_runs, parse_result, marked_unknown, mig>>

(***************************************************************************)
(* A direct call of ChatMessageParser.parse_chat_message_content.  The     *)
(* argument is a str (is_str, v its characters) or a value of another type *)
(* (a BLOB of the content column comes back as bytes), on which re.search  *)
(* raises TypeError inside the try.                                        *)
(***************************************************************************)
StrContent(s) == [is_str |-> TRUE, v |-> s]
BytesContent(b) == [is_str |-> FALSE, v |-> b]

\* nothing was parsed yet
NoParseResult ==
  [called |-> FALSE, content |-> StrContent(<< >>), raised |-> FALSE,
   role |-> None, text |-> StrContent(<< >>)]

\* variant of the except branch: the exception is raised again
ParseFailure_Raise(content) ==
  [called |-> TRUE, content |-> content, raised |-> TRUE,
   role |-> None, text |-> StrContent(<< >>)]

\* lines 81-83: return None, content
ParseFailure(content) ==
  [called |-> TRUE, content |-> content, raised |-> FALSE,
   role |-> None, text |-> content]

\* lines 43-83
ParseCall(content) ==
  /\ parse_result' =
       IF content.is_str
       THEN LET parsed == ParseChatMessageContent(content.v)
            IN  [called |-> TRUE, content |-> content, raised |-> FALSE,
                 role |-> parsed.role, text |-> StrContent(parsed.text)]
       ELSE ParseFailure(content)
  /\ UNCHANGED <<chat_messages, chat_sessions, next_id, log_inserts,
                 message_analytics, txn, save_result, proc, sess,
                 model_configured, ever_logged, terminated_runs,
                 session_runs, analytics_data, marked_unknown, mig>>

(***************************************************************************)
(* Specification: the live session writes messages and one caller runs the *)
(* queue-driven pipeline again and again.  The storage failures are the    *)
(* per-message ones of save_message_analytics; mark and clear succeed.     *)
(***************************************************************************)
SaveOutcomes == {"ok", "false", "raise"}

Init ==
  /\ chat_messages = << >>
  /\ chat_sessions = {}
  /\ next_id = 1
  /\ log_inserts = << >>
  /\ message_analytics = << >>
  /\ txn = NoTxn
  /\ save_result = "none"
  /\ proc = [p \in Procs |-> IdleProc]
  /\ sess = IdleSession
  /\ model_configured \in BOOLEAN
  /\ ever_logged = {}
  /\ terminated_runs = << >>
  /\ session_runs = 0
  /\ analytics_data = NoAnalyticsData
  /\ parse_result = NoParseResult
  /\ marked_unknown = {}
  /\ mig = [g \in Migs |-> IdleMigration]

\* the live session: save_chat_message on a message of the set S
WriterNext(S) ==
  \/ \E m \in S, trigger_ok \in BOOLEAN :
       SaveChatMessageExecute(m, trigger_ok)
  \/ SaveChatMessageCommit
  \/ SaveChatMessageRollback

\* caller p of process_unprocessed_messages, the external capability
\* answering from the set R
ProcessorNext(p, R) ==
  \/ ProcessStart(p)
  \/ ProcessFetch(p)
  \/ \E response \in R, save_out \in SaveOutcomes :
       ProcessMessage(p, response, save_out)
  \/ ProcessMark(p, TRUE)
  \/ ProcessClear(p, TRUE)

Next ==
  \/ WriterNext(SampleMessages)
  \/ ProcessorNext(1, SampleResponses)

Spec == Init /\ [][Next]_vars

(***************************************************************************)
(* The same, with runs of the pipeline that are terminated from outside    *)
(* before they return.                                                     *)
(***************************************************************************)
\* the answers that decode to an object
ObjectResponses == {r \in SampleResponses : r.kind = "object"}

\* a message that is analyzed and one that is skipped
TerminateSamples ==
  {m \in SampleMessages : m.content \in {<<"h","i">>, <<" ">>}}

NextTerminate ==
  \/ WriterNext(TerminateSamples)
  \/ ProcessorNext(1, ObjectResponses)
  \/ ProcessTerminate(1)

SpecTerminate == Init /\ [][NextTerminate]_vars

(***************************************************************************)
(* The same, with on-demand invocations of the session-scoped entry point. *)
(***************************************************************************)
\* the live session writes one message of each stored role
NextSession ==
  \/ WriterNext({m \in SampleMessages :
                   m.content \in {<<"h","i">>, StructuredContent,
                                  <<"'","y","o","'">>}})
  \/ ProcessorNext(1, ObjectResponses)
  \/ \E session_id \in SessionIds : SessionStart(session_id)
  \/ \E response \in ObjectResponses, save_out \in SaveOutcomes :
       SessionMessage(response, save_out)

SpecSession == Init /\ [][NextSession]_vars

(***************************************************************************)
(* Two callers run the queue-driven pipeline at the same time (the         *)
(* scheduled processor of the server and a manual invocation): nothing in  *)
(* process_unprocessed_messages keeps their steps from interleaving.       *)
(***************************************************************************)
\* a message that is analyzed
ConcurrentSamples == {m \in SampleMessages : m.content = <<"h","i">>}

NextConcurrent ==
  \/ WriterNext(ConcurrentSamples)
  \/ \E p \in Procs : ProcessorNext(p, ObjectResponses)

SpecConcurrent == Init /\ [][NextConcurrent]_vars

(***************************************************************************)
(* The two entry points with storage failures: mark_messages_processed and  *)
(* clear_processed_log_entries may report failure (they return False and   *)
(* change nothing), a query may return no row, and a storage call may raise.*)
(***************************************************************************)
\* the entry points work while message_analytics has fewer than MaxRows
\* rows: an id that a failed mark leaves pending gets one more row in
\* every run.  One caller invokes them, one after the other.
ProcessorStorageNext(p, R) ==
  \/ /\ Len(message_analytics) < MaxRows
     /\ \/ sess.pc = "idle" /\ ProcessStart(p)
        \/ ProcessFetch(p)
        \/ ProcessFetchEmpty(p)
        \/ \E response \in R, save_out \in SaveOutcomes :
             ProcessMessage(p, response, save_out)
  \/ \E mark_ok \in BOOLEAN : ProcessMark(p, mark_ok)
  \/ \E clear_ok \in BOOLEAN : ProcessClear(p, clear_ok)
  \/ sess.pc = "idle" /\ ProcessStorageRaise(p)

SessionStorageNext(R) ==
  \/ /\ Len(message_analytics) < MaxRows
     /\ \/ proc[1].pc = "idle" /\ SessionStart("s1")
        \/ \E response \in R, save_out \in SaveOutcomes :
             SessionMessage(response, save_out)
  \/ proc[1].pc = "idle" /\ SessionStartStorageFailure("s1")

NextStorage ==
  \/ WriterNext(ConcurrentSamples)
  \/ ProcessorStorageNext(1, ObjectResponses)
  \/ SessionStorageNext(ObjectResponses)

SpecStorage == Init /\ [][NextStorage]_vars

(***************************************************************************)
(* Both entry points with an external capability that answers anything:    *)
(* it raises, returns text that is no JSON, JSON that is no object, or     *)
(* objects with out-of-range, missing and wrongly typed members.           *)
(***************************************************************************)
AnalyzerResponses ==
  {RaiseResponse, TextResponse, ValueResponse,
   \* score above the range, unknown labels, seven keywords
   ObjectResponse([sentiment_score   |-> JNum(50),
                   sentiment_label   |-> JStr(<<"g","r","e","a","t">>),
                   emotion_label     |-> JStr(<<"e","c","s","t","a","t","i","c">>),
                   contains_keywords |->
                     JList(<<JStr(<<"a">>), JStr(<<"b">>), JNull,
                             JStr(<<"c">>), JStr(<<"d">>), JStr(<<" ">>),
                             JStr(<<"e">>)>>)]),
   \* score below the range, a label that is no string
   ObjectResponse([sentiment_score   |-> JNum(-50),
                   sentiment_label   |-> JNum(1),
                   emotion_label     |-> JStr(Joy),
                   contains_keywords |-> JList(<< >>)]),
   \* score below the range, unknown label, upper-case emotion
   ObjectResponse([sentiment_score   |-> JNum(-50),
                   sentiment_label   |-> JStr(<<"b","a","d">>),
                   emotion_label     |-> JStr(<<"F","E","A","R">>),
                   contains_keywords |-> JStr(<<"a">>)]),
   \* a score that is a string, upper-case label, a boolean as emotion
   ObjectResponse([sentiment_score   |-> JStr(<<"h","i","g","h">>),
                   sentiment_label   |-> JStr(<<"N","E","G","A","T","I","V","E">>),
                   emotion_label     |-> JStr(Anger),
                   contains_keywords |-> JNull]),
   \* a boolean score, no other member
   ObjectResponse([sentiment_score |-> JBool(TRUE)])}

\* the storage succeeds
SaveSucceeds == {"ok"}

\* the entry points work while message_analytics has fewer than MaxRows
\* rows
NextAnalyzer ==
  \/ WriterNext(ConcurrentSamples)
  \/ /\ Len(message_analytics) < MaxRows
     /\ \/ ProcessStart(1)
        \/ ProcessFetch(1)
        \/ \E response \in AnalyzerResponses, save_out \in SaveSucceeds :
             ProcessMessage(1, response, save_out)
        \/ SessionStart("s1")
        \/ \E response \in AnalyzerResponses, save_out \in SaveSucceeds :
             SessionMessage(response, save_out)
  \/ ProcessMark(1, TRUE)
  \/ ProcessClear(1, TRUE)

SpecAnalyzer == Init /\ [][NextAnalyzer]_vars

(***************************************************************************)
(* The queue-driven pipeline and the migration script, which an operator   *)
(* runs at any time.  Both work while message_analytics has fewer than     *)
(* MaxRows rows.                                                           *)
(***************************************************************************)
NextMigration ==
  \/ WriterNext(ConcurrentSamples)
  \/ Len(message_analytics) < MaxRows /\ ProcessStart(1)
  \/ Len(message_analytics) < MaxRows /\ RunMigration
  \/ ProcessFetch(1)
  \/ \E response \in ObjectResponses, save_out \in SaveOutcomes :
       ProcessMessage(1, response, save_out)
  \/ ProcessMark(1, TRUE)
  \/ ProcessClear(1, TRUE)

SpecMigration == Init /\ [][NextMigration]_vars

(***************************************************************************)
(* The queue-driven pipeline while the user deletes sessions.              *)
(***************************************************************************)
NextDelete ==
  \/ WriterNext(TerminateSamples)
  \/ ProcessorNext(1, ObjectResponses)
  \/ \E session_id \in SessionIds : DeleteChatSession(session_id)

SpecDelete == Init /\ [][NextDelete]_vars

(***************************************************************************)
(* Every operation on the three tables: the live session, both entry       *)
(* points of the pipeline, the migration, the dashboard query and the      *)
(* deletion of a session.  The live session writes at any time; one caller *)
(* invokes the other operations one after the other.  The analyzer and the *)
(* storage calls of the pipeline succeed, and the entry points and the     *)
(* migration start while message_analytics has fewer than MaxRows rows.    *)
(***************************************************************************)
\* no entry point is in progress
NoRun == proc[1].pc = "idle" /\ sess.pc = "idle"

NextOperations ==
  \/ WriterNext(ConcurrentSamples)
  \/ NoRun /\ Len(message_analytics) < MaxRows /\ ProcessStart(1)
  \/ ProcessFetch(1)
  \/ \E response \in ObjectResponses, save_out \in SaveSucceeds :
       ProcessMessage(1, response, save_out)
  \/ ProcessMark(1, TRUE)
  \/ ProcessClear(1, TRUE)
  \/ NoRun /\ Len(message_analytics) < MaxRows /\ SessionStart("s1")
  \/ \E response \in ObjectResponses, save_out \in SaveSucceeds :
       SessionMessage(response, save_out)
  \/ NoRun /\ Len(message_analytics) < MaxRows /\ RunMigration
  \/ NoRun /\ DeleteChatSession("s1")
  \/ NoRun /\ GetAnalyticsData
  \/ NoRun /\ GetAnalyticsDataFailure

SpecOperations == Init /\ [][NextOperations]_vars

(***************************************************************************)
(* The queue-driven pipeline with an external capability whose answers are *)
(* JSON objects and range over the cases of _validate_analysis: scores     *)
(* inside, at and outside the range, of every JSON type and missing;       *)
(* labels in every case, unknown, no string and missing, each with scores  *)
(* around the thresholds; keyword lists longer than five, with blank and   *)
(* padded entries, and values that are no list.                            *)
(***************************************************************************)
\* scores in tenths: -5.0, -1.1, -1.0, -0.2, -0.1, 0, 0.1, 0.2, 1.0, 1.1, 5.0
ScoreResponses ==
  LET ScoreSamples ==
        {JNum(n) : n \in {-50, -11, -10, -2, -1, 0, 1, 2, 10, 11, 50}}
          \cup {JStr(<<"h","i","g","h">>), JNull, JBool(TRUE), JBool(FALSE),
                JList(<< >>)}
  IN  {ObjectResponse([sentiment_score   |-> sc,
                       sentiment_label   |-> JStr(Neutral),
                       emotion_label     |-> JStr(Joy),
                       contains_keywords |-> JList(<< >>)]) : sc \in ScoreSamples}
        \cup {ObjectResponse([sentiment_label   |-> JStr(Neutral),
                              emotion_label     |-> JStr(Joy),
                              contains_keywords |-> JList(<< >>)])}

\* every label with every score around the thresholds; the keyword list
\* repeats the label as it was answered
LabelResponses ==
  LET LabelSamples ==
        {<<"P","o","s","i","t","i","v","e">>, <<"N","E","G","A","T","I","V","E">>,
         Neutral, <<"g","r","e","a","t">>,
         <<" ","p","o","s","i","t","i","v","e">>}
  IN  {ObjectResponse([sentiment_score   |-> JNum(n),
                       sentiment_label   |-> JStr(label),
                       emotion_label     |-> JStr(Neutral),
                       contains_keywords |-> JList(<<JStr(label)>>)]) :
         n \in {-50, -2, -1, 0, 1, 2, 50}, label \in LabelSamples}
        \cup {ObjectResponse([sentiment_score   |-> JNum(n),
                              emotion_label     |-> JStr(Neutral),
                              contains_keywords |-> JList(<< >>)]) :
                n \in {-50, 50}}
        \cup {ObjectResponse([sentiment_score   |-> JNum(50),
                              sentiment_label   |-> JNum(1),
                              emotion_label     |-> JStr(Neutral),
                              contains_keywords |-> JList(<< >>)])}

KeywordResponses ==
  LET KeywordSamples ==
        {\* eight keywords
         JList(<<JStr(<<"a">>), JStr(<<"b">>), JStr(<<"c">>), JStr(<<"d">>),
                 JStr(<<"e">>), JStr(<<"f">>), JStr(<<"g">>), JStr(<<"h">>)>>),
         \* blank and padded entries among the first five, more after them
         JList(<<JStr(<<" ","a"," ">>), JStr(<< >>), JStr(<<"b">>),
                 JStr(<<" ","\t">>), JNull, JStr(<<"c">>), JStr(<<"d">>)>>),
         \* fewer than five, a boolean among them
         JList(<<JStr(<<"b">>), JBool(TRUE), JStr(<<"a">>)>>),
         JList(<< >>),
         \* values that are no list
         JStr(<<"a",",","b">>), JNull, JNum(3), JBool(TRUE)}
  IN  {ObjectResponse([sentiment_score   |-> JNum(0),
                       sentiment_label   |-> JStr(Neutral),
                       emotion_label     |-> JStr(Sadness),
                       contains_keywords |-> kw]) : kw \in KeywordSamples}
        \cup {ObjectResponse([sentiment_score   |-> JNum(0),
                              sentiment_label   |-> JStr(Neutral),
                              emotion_label     |-> JStr(Sadness)])}

ValidateResponses == ScoreResponses \cup LabelResponses \cup KeywordResponses

\* runs work while message_analytics has fewer than MaxValidated rows
NextValidate ==
  \/ WriterNext(ConcurrentSamples)
  \/ Len(message_analytics) < MaxValidated /\ ProcessStart(1)
  \/ Len(message_analytics) < MaxValidated /\ ProcessFetch(1)
  \/ /\ Len(message_analytics) < MaxValidated
     /\ \E response \in ValidateResponses, save_out \in SaveSucceeds :
          ProcessMessage(1, response, save_out)
  \/ ProcessMark(1, TRUE)
  \/ ProcessClear(1, TRUE)

SpecValidate == Init /\ [][NextValidate]_vars

(***************************************************************************)
(* The parser alone, called on every content made of at most MaxTokens     *)
(* tokens and on values that are no str.                                   *)
(***************************************************************************)
\* role='assistant'
RoleToken ==
  <<"r","o","l","e","=","'","a","s","s","i","s","t","a","n","t","'">>

\*  content=['Hello there']
ContentToken ==
  <<" ","c","o","n","t","e","n","t","=","[","'","H","e","l","l","o"," ",
    "t","h","e","r","e","'","]">>

ParserTokens ==
  {RoleToken, ContentToken,
   \* role='' (no word between the quotes)
   <<"r","o","l","e","=","'","'">>,
   \* content=[ a\nb ] (backslash, n: an escaped line break)
   <<"c","o","n","t","e","n","t","=","["," ","a","\\","n","b"," ","]">>,
   <<"'","h","i","'">>, <<"\"","y","o">>, <<"'">>, <<" ">>, <<"x">>,
   <<"]">>}

RECURSIVE Flatten(_)
Flatten(ts) == IF ts = << >> THEN << >> ELSE Head(ts) \o Flatten(Tail(ts))

ParserInputs ==
  {StrContent(Flatten(ts)) :
     ts \in UNION {[1..n -> ParserTokens] : n \in 0..MaxTokens}}
    \cup {BytesContent(<<"'","h","i","'">>), BytesContent(<< >>)}

NextParser == \E content \in ParserInputs : ParseCall(content)

SpecParser == Init /\ [][NextParser]_vars

(***************************************************************************)
(* The live session calls save_chat_message with any role, also with ones  *)
(* that the CHECK constraint of chat_messages rejects, while one caller    *)
(* runs the queue-driven pipeline.  The trigger and the commit succeed, so *)
(* that save_chat_message returns False only for a rejected role.          *)
(***************************************************************************)
\* two messages that are stored, and messages of session s2 with roles
\* outside the three of the CHECK constraint: another word, a valid word
\* in another case, the empty string
RoleSamples ==
  {m \in SampleMessages : m.content \in {<<"h","i">>, StructuredContent}}
    \cup {[session_id |-> "s2", role |-> role, content |-> <<"h","i">>] :
            role \in {<<"t","o","o","l">>, <<"U","s","e","r">>, << >>}}

NextRoles ==
  \/ \E m \in RoleSamples : SaveChatMessageExecute(m, TRUE)
  \/ SaveChatMessageCommit
  \/ ProcessorNext(1, ObjectResponses)

SpecRoles == Init /\ [][NextRoles]_vars

(***************************************************************************)
(* The queue-driven pipeline and the migration script step by step: each   *)
(* of its three queries runs in a connection of its own, so the steps of   *)
(* the live session, of the pipeline and of a second invocation of the     *)
(* script come between them.  The pipeline and the script start while      *)
(* message_analytics has fewer than MaxRows rows.                          *)
(***************************************************************************)
NextMigrationSteps ==
  \/ WriterNext(ConcurrentSamples)
  \/ Len(message_analytics) < MaxRows /\ ProcessStart(1)
  \/ ProcessFetch(1)
  \/ \E response \in ObjectResponses, save_out \in SaveSucceeds :
       ProcessMessage(1, response, save_out)
  \/ ProcessMark(1, TRUE)
  \/ ProcessClear(1, TRUE)
  \/ \E g \in Migs :
       Len(message_analytics) < MaxRows /\ MigrationReadMessages(g)
  \/ \E g \in Migs : MigrationReadLog(g)
  \/ \E g \in Migs : MigrationInsert(g)

SpecMigrationSteps == Init /\ [][NextMigrationSteps]_vars

(***************************************************************************)
(* The queue-driven pipeline on Messages whose content names a role other  *)
(* than the one they are stored with, beside contents with no role.        *)
(***************************************************************************)
\* role='assistant' content=['ok'] stored as system; role='user'
\* content=[''] stored as assistant; hi stored as user; 'yo' stored as
\* system
RoleTextSamples ==
  {[session_id |-> "s1", role |-> SystemRole, content |-> StructuredContent],
   [session_id |-> "s1", role |-> AssistantRole,
    content |-> StructuredEmptyContent],
   [session_id |-> "s1", role |-> UserRole, content |-> <<"h","i">>],
   [session_id |-> "s1", role |-> SystemRole,
    content |-> <<"'","y","o","'">>]}

NextRoleText ==
  \/ WriterNext(RoleTextSamples)
  \/ ProcessorNext(1, ObjectResponses)

SpecRoleText == Init /\ [][NextRoleText]_vars

(***************************************************************************)
(* The specification Spec with a scheduler that invokes the pipeline again *)
(* and again and lets every step of a run complete: weak fairness of the   *)
(* steps of caller 1.                                                      *)
(***************************************************************************)
LiveSpec == Spec /\ WF_vars(ProcessorNext(1, SampleResponses))

(***************************************************************************)
(* Properties.                                                             *)
(***************************************************************************)
\* the ids that list_pending returns
PendingIds == Range(GetUnprocessedMessageIds(log_inserts))

\* the ids of the Messages in the store
StoredIds == {m.id : m \in Range(chat_messages)}

\* number of log_inserts rows of Message i in the table log
CountLog(log, i) ==
  Cardinality({k \in 1..Len(log) : log[k].chat_message_id = i})

\* number of message_analytics rows of Message i
CountRows(i) ==
  Cardinality({k \in 1..Len(message_analytics) :
                 message_analytics[k].msg_id = i})

\* C1: capture completeness.  Every step that makes a Message visible in
\* the store leaves exactly one log_inserts row with the id of that Message,
\* and the row is unprocessed, whatever the pipeline is doing at that time.
C1_CaptureCompleteness ==
  [][\A m \in Range(chat_messages') :
       m.id \notin StoredIds =>
         /\ CountLog(log_inserts', m.id) = 1
         /\ \A k \in 1..Len(log_inserts') :
              log_inserts'[k].chat_message_id = m.id
                => ~log_inserts'[k].processed]_vars

\* a Message was committed while a run of the pipeline that had not read
\* its id was in its loop, and the Message is pending
C1_Witness ==
  /\ save_result = "True"
  /\ proc[1].pc = "loop"
  /\ \E i \in StoredIds :
       /\ i \notin Range(proc[1].unprocessed_ids)
       /\ i \in PendingIds

\* C2: insert and enqueue are one atomic unit.  Every Message in the store
\* has had its log_inserts row created, and an open transaction that has
\* written a Message has written the row of that Message as well, so that
\* no commit, failure or rollback can separate the two.
C2_InsertEnqueueAtomic ==
  /\ \A i \in StoredIds : i \in ever_logged
  /\ txn.open =>
       {m.id : m \in Range(txn.messages)} =
       {r.chat_message_id : r \in Range(txn.log)}
  /\ save_result = "False" => ~txn.open

\* an insert has been rolled back (or its trigger failed) after an earlier
\* Message was committed, processed and its queue row cleared
C2_Witness ==
  /\ save_result = "False"
  /\ Len(chat_messages) = 1
  /\ log_inserts = << >>
  /\ ever_logged = {1}

\* C3: an AnalysisResult is created exactly once per analyzed Message: no
\* Message of the store ever has two message_analytics rows, whatever
\* sequence of queue-driven and session-scoped runs has been made.
C3_ExactlyOnce == \A i \in StoredIds : CountRows(i) <= 1

\* the calls of the last run of caller p that have operation op
CallsOf(p, op) == {c \in Range(proc[p].calls) : c.op = op}

\* C4: queue-side idempotence.  When a run has returned and no Message has
\* been inserted since it read the queue (every pending id is one it read),
\* a second run finds nothing pending: it returns success with
\* processed_count 0 and changes neither log_inserts nor message_analytics.
C4_QueueIdempotence ==
  [][(/\ proc[1].result.kind = "done"
      /\ PendingIds \subseteq Range(proc[1].unprocessed_ids)
      /\ ProcessStart(1))
       => /\ proc'[1].pc = "idle"
          /\ proc'[1].result.success
          /\ proc'[1].result.processed_count = 0
          /\ log_inserts' = log_inserts
          /\ message_analytics' = message_analytics]_vars

\* C6: a run on an empty pending set is a no-op.  It returns at once with
\* success, processed_count 0 and total_unprocessed 0, has called neither
\* the analyzer, mark nor clear, and leaves both tables as they were.
C6_EmptyRunNoOp ==
  [][(PendingIds = {} /\ ProcessStart(1))
       => /\ proc'[1].pc = "idle"
          /\ proc'[1].result.kind = "empty"
          /\ proc'[1].result.success
          /\ ~proc'[1].result.error
          /\ proc'[1].result.processed_count = 0
          /\ proc'[1].result.total_unprocessed = 0
          /\ proc'[1].calls = << >>
          /\ log_inserts' = log_inserts
          /\ message_analytics' = message_analytics]_vars

\* a run has returned from the empty branch after an earlier run had
\* analyzed a Message and emptied the queue
C6_Witness ==
  /\ proc[1].result.kind = "empty"
  /\ message_analytics # << >>
  /\ log_inserts = << >>

\* C7: a failed save still retires the entry.  When a run has returned,
\* every id whose save reported failure or raised was in the argument of
\* the mark call of that run and is not pending any more.
C7_SaveFailureRetires ==
  proc[1].result.kind = "done" =>
    \A c \in CallsOf(1, "save") :
      c.out \in {"false", "raise"} =>
        /\ \E mk \in CallsOf(1, "mark") : c.id \in Range(mk.ids)
        /\ c.id \notin PendingIds

\* C5: eventual analysis.  Under a fair scheduler of the pipeline every
\* Message of the store eventually has a message_analytics row.
C5_EventualAnalysis ==
  \A i \in 1..MaxMsgs : (i \in StoredIds) ~> (CountRows(i) > 0)

\* Message i has been dealt with by a run: it has a row, or it was retired
\* from the queue without one, or its save reported failure in the last run
Handled(i) ==
  \/ CountRows(i) > 0
  \/ i \in ever_logged /\ i \notin PendingIds
  \/ \E c \in CallsOf(1, "save") : c.id = i /\ c.out = "false"

\* C5 (amended): under a fair scheduler of the pipeline every Message of
\* the store is eventually dealt with by a run: it gets a
\* message_analytics row, or it is retired from the queue without one, or
\* its save reports failure.
C5_EventualHandling ==
  \A i \in 1..MaxMsgs : (i \in StoredIds) ~> Handled(i)

\* a run has returned, the queue is drained, one Message of the store was
\* retired without a row and another one has its row
C5_Witness ==
  /\ proc[1].result.kind = "done"
  /\ \E i \in StoredIds : CountRows(i) = 0 /\ i \notin PendingIds
  /\ \E i \in StoredIds : CountRows(i) > 0
  /\ PendingIds = {}

\* C8: poison messages do not block the queue.  When a run has returned,
\* a Message whose processing raised has no row, was in the argument of the
\* mark call and is not pending, and every Message of the batch was
\* either skipped or analyzed and saved; and an id that has left the
\* pending set never comes back to it, so no later run reads it again.
C8_PoisonRetired ==
  /\ [](proc[1].result.kind = "done" =>
          /\ \A c \in CallsOf(1, "save") :
               c.out = "raise" =>
                 /\ CountRows(c.id) = 0
                 /\ \E mk \in CallsOf(1, "mark") : c.id \in Range(mk.ids)
                 /\ c.id \notin PendingIds
          /\ \A k \in 1..Len(proc[1].messages) :
               \E c \in CallsOf(1, "save") \cup CallsOf(1, "skip") :
                 /\ c.id = proc[1].messages[k].id
                 /\ c.out = "ok" => CountRows(c.id) = 1)
  /\ [][\A i \in ever_logged :
          i \notin PendingIds => i \notin PendingIds']_vars

\* a run has returned in which the save of the first Message raised and
\* the second Message of the batch got its row
C8_Witness ==
  /\ proc[1].result.kind = "done"
  /\ Len(proc[1].messages) = 2
  /\ \E c \in CallsOf(1, "save") :
       c.id = proc[1].messages[1].id /\ c.out = "raise"
  /\ \E c \in CallsOf(1, "save") :
       c.id = proc[1].messages[2].id /\ c.out = "ok"
  /\ CountRows(proc[1].messages[2].id) = 1

\* C9: empty messages are skipped but retired.  When a run has returned,
\* a Message of its batch whose parsed text is empty or whitespace-only
\* has no analyzer call, has no row and is not pending.
C9_EmptySkipped ==
  proc[1].result.kind = "done" =>
    \A k \in 1..Len(proc[1].messages) :
      LET message == proc[1].messages[k]
      IN  Strip(ParseChatMessageContent(message.content).text) = << >> =>
            /\ \A c \in CallsOf(1, "analyze") : c.id # message.id
            /\ CountRows(message.id) = 0
            /\ message.id \notin PendingIds

\* the run of caller p was terminated before its mark call
TerminatedBeforeMark(p) ==
  proc[p].result.kind = "terminated" /\ CallsOf(p, "mark") = {}

\* number of terminated runs that had inserted a row for Message i
CountTerminated(i) ==
  Cardinality({k \in 1..Len(terminated_runs) :
                 i \in Range(terminated_runs[k])})

\* C10: mid-batch termination is at-least-once.  A run terminated before
\* its mark call leaves its rows in message_analytics and every id it had
\* read pending; the next run reads those ids again; and when a complete
\* run returns, each Message it saved has one row from this run and one
\* more from every terminated run that had saved it.
C10_AtLeastOnce ==
  /\ [][(ProcessTerminate(1) /\ CallsOf(1, "mark") = {})
          => /\ message_analytics' = message_analytics
             /\ \A i \in Range(SavedIds(proc[1].calls)) : CountRows(i) >= 1
             /\ Range(proc[1].unprocessed_ids) \subseteq
                  Range(GetUnprocessedMessageIds(log_inserts'))]_vars
  /\ [][(TerminatedBeforeMark(1) /\ ProcessStart(1))
          => /\ proc'[1].pc = "fetch"
             /\ Range(proc[1].unprocessed_ids) \subseteq
                  Range(proc'[1].unprocessed_ids)]_vars
  /\ [](proc[1].result.kind = "done" =>
          \A i \in Range(SavedIds(proc[1].calls)) :
            CountRows(i) = 1 + CountTerminated(i))

\* a complete run has returned after a terminated one and a Message that
\* both had saved has two rows
C10_Witness ==
  /\ proc[1].result.kind = "done"
  /\ terminated_runs # << >>
  /\ \E i \in Range(SavedIds(proc[1].calls)) :
       CountTerminated(i) = 1 /\ CountRows(i) = 2

\* caller p has returned from a complete run
RunDone(p) == proc[p].pc = "idle" /\ proc[p].result.kind = "done"

\* C11: no mutual exclusion between processors.  A run handles every id
\* it read at its start, whatever another run has done to the queue in the
\* meantime: when it has returned, each of those ids has been skipped or
\* analyzed and saved by it.  When both callers have returned and both
\* have saved a row for the same Message, that Message has two rows and
\* is not pending.
C11_NoMutualExclusion ==
  /\ \A p \in Procs :
       RunDone(p) =>
         \A i \in Range(proc[p].unprocessed_ids) :
           \E c \in CallsOf(p, "save") \cup CallsOf(p, "skip") : c.id = i
  /\ (RunDone(1) /\ RunDone(2)) =>
       \A i \in Range(SavedIds(proc[1].calls)) \cap
                Range(SavedIds(proc[2].calls)) :
         CountRows(i) = 2 /\ i \notin PendingIds

\* both callers have returned with success from runs that read the same
\* id, the Message has two rows and the queue is empty
C11_Witness ==
  /\ RunDone(1) /\ RunDone(2)
  /\ proc[1].result.success /\ proc[2].result.success
  /\ \E i \in Range(proc[1].unprocessed_ids) \cap
              Range(proc[2].unprocessed_ids) :
       CountRows(i) = 2 /\ i \notin PendingIds
  /\ log_inserts = << >>

\* C12: commit ordering.  Within every run, a call of
\* clear_processed_log_entries comes after a call of
\* mark_messages_processed of the same run that reported success.
C12_ClearAfterMark ==
  \A k \in 1..Len(proc[1].calls) :
    proc[1].calls[k].op = "clear" =>
      \E j \in 1..(k - 1) :
        proc[1].calls[j].op = "mark" /\ proc[1].calls[j].out = "ok"

\* the values of row r are within the declared range and enumerations
RowValid(r) ==
  /\ r.sentiment_score \in -10..10
  /\ r.sentiment_label \in SentimentLabels
  /\ r.emotion_label \in ValidEmotions
  /\ Len(r.contains_keywords) <= MaxKeywords

\* C13: every row of message_analytics, whichever entry point saved it and
\* whatever the external capability answered, has a sentiment_score
\* within [-1.0, 1.0], a sentiment_label and an emotion_label of the
\* enumerations and at most 5 keywords.
C13_RowsValidated ==
  \A k \in 1..Len(message_analytics) : RowValid(message_analytics[k])

\* both entry points have saved a row, one row holds a score clamped to
\* 1.0 with a label inferred from it and five keywords, another one a
\* score clamped to -1.0
C13_Witness ==
  /\ \E c \in CallsOf(1, "save") : c.out = "ok"
  /\ \E c \in Range(sess.calls) : c.op = "save" /\ c.out = "ok"
  /\ \E k \in 1..Len(message_analytics) :
       /\ message_analytics[k].sentiment_score = 10
       /\ message_analytics[k].sentiment_label = Positive
       /\ Len(message_analytics[k].contains_keywords) = MaxKeywords
  /\ \E k \in 1..Len(message_analytics) :
       /\ message_analytics[k].sentiment_score = -10
       /\ message_analytics[k].sentiment_label = Negative

\* the answers of the external capability that are no JSON object: the
\* call raises, the text is no JSON, the JSON is no object
FallbackResponses == {RaiseResponse, TextResponse, ValueResponse}

\* row r holds the neutral default: score 0.0, neutral, neutral, no keyword
IsDefaultRow(r) ==
  /\ r.sentiment_score = 0
  /\ r.sentiment_label = Neutral
  /\ r.emotion_label = Neutral
  /\ r.contains_keywords = << >>

\* the step has appended one row, and it holds the neutral default
DefaultRowAppended ==
  /\ Len(message_analytics') = Len(message_analytics) + 1
  /\ IsDefaultRow(message_analytics'[Len(message_analytics')])

\* C14: analyzer fallback.  Whenever the model is not configured, the call
\* raises or the answer is no JSON object, the step of either entry point
\* that analyzes a Message with non-empty text and saves the result
\* appends a row with the neutral default, counts the Message as processed
\* and goes on with the batch.
C14_AnalyzerFallback ==
  [][\A response \in AnalyzerResponses :
       (~model_configured \/ response \in FallbackResponses) =>
         /\ (/\ ProcessMessage(1, response, "ok")
             /\ ~IsEmptyMessage(proc[1].messages[proc[1].idx]))
              => /\ DefaultRowAppended
                 /\ proc'[1].processed_count = proc[1].processed_count + 1
                 /\ proc[1].messages[proc[1].idx].id \in
                      Range(proc'[1].processed_message_ids)
                 /\ proc'[1].pc \in {"loop", "mark"}
         /\ SessionMessage(response, "ok")
              => /\ DefaultRowAppended
                 /\ sess'.processed_count = sess.processed_count + 1]_vars

\* with a configured model, a queue-driven run has returned with success
\* and a session-scoped run has returned with success, and every row holds
\* the neutral default
C14_Witness ==
  /\ model_configured
  /\ RunDone(1) /\ proc[1].result.success
  /\ sess.result.kind = "done" /\ sess.result.success
  /\ Len(message_analytics) >= 2
  /\ \A k \in 1..Len(message_analytics) : IsDefaultRow(message_analytics[k])

\* caller p has returned from process_unprocessed_messages
Returned(p) ==
  proc[p].pc = "idle" /\ proc[p].result.kind \notin {"none", "terminated"}

\* the caller has returned from process_session_analytics
SessionReturned == sess.pc = "idle" /\ sess.result.kind # "none"

\* C15: the entry points never raise.  Every way out of a run of either
\* entry point is a return with a result, whatever the storage calls and
\* the analyzer did; the result has a success flag; a result without
\* success carries an error string; and the runs that failed (a storage
\* call raised, no row came back from a query, no row was saved) report
\* success = false.
C15_NeverRaise ==
  /\ [][(proc[1].pc # "idle" /\ proc'[1].pc = "idle") => Returned(1)']_vars
  /\ [][(sess.pc # "idle" /\ sess'.pc = "idle") => SessionReturned']_vars
  /\ [](Returned(1) =>
          LET r == proc[1].result
          IN  /\ r.success \in BOOLEAN
              /\ r.success = ~r.error
              /\ r.kind \in {"exception", "nofetch"} => ~r.success
              /\ (r.kind = "done" /\ SavedIds(proc[1].calls) = << >>)
                   => ~r.success)
  /\ [](SessionReturned =>
          LET r == sess.result
          IN  /\ r.success \in BOOLEAN
              /\ r.success = ~r.error
              /\ r.kind \in {"nomessages", "nouser"} => ~r.success
              /\ (r.kind = "done" /\ SavedIds(sess.calls) = << >>)
                   => ~r.success)

\* the queue-driven run has returned the result of the outer except after
\* it had saved a row, and the session-scoped run has returned its failure
\* result although the session has a message
C15_Witness ==
  /\ Returned(1) /\ proc[1].result.kind = "exception"
  /\ SavedIds(proc[1].calls) # << >>
  /\ SessionReturned /\ sess.result.kind = "nomessages"
  /\ \E m \in Range(chat_messages) : m.session_id = sess.session_id

\* C16: result reporting of process_unprocessed_messages.  With pending
\* work, processed_count is the number of rows the run saved, success is
\* true exactly when it is positive, and a result with processed_count 0
\* carries an error string; without pending work success is true.
C16_ResultReporting ==
  Returned(1) =>
    LET r == proc[1].result
    IN  IF r.kind = "empty" THEN r.success
        ELSE /\ r.processed_count = Len(SavedIds(proc[1].calls))
             /\ r.success = (r.processed_count > 0)
             /\ r.processed_count = 0 => r.error

\* C16 (amended): the same for every run in which no storage call raised
\* outside the per-message handling; a run in which one did reports
\* success = false, an error string and processed_count 0, whatever it
\* had saved.
C16_ResultReportingAmended ==
  Returned(1) =>
    LET r == proc[1].result
    IN  IF r.kind = "empty" THEN r.success
        ELSE IF r.kind = "exception"
             THEN ~r.success /\ r.error /\ r.processed_count = 0
             ELSE /\ r.processed_count = Len(SavedIds(proc[1].calls))
                  /\ r.success = (r.processed_count > 0)
                  /\ r.processed_count = 0 => r.error

\* a run with pending work has returned without a saved row: the id was
\* handled, the result reports failure
C16_Witness ==
  /\ Returned(1) /\ proc[1].result.kind = "done"
  /\ proc[1].processed_message_ids # << >>
  /\ proc[1].result.processed_count = 0
  /\ ~proc[1].result.success /\ proc[1].result.error

\* C17: the queue-driven pipeline processes all roles.  When a run has
\* returned, every Message of its batch whose text is not blank and whose
\* save did not fail has its row, whatever role it is stored with, and the
\* row records the role of the Message.
C17_AllRoles ==
  RunDone(1) =>
    \A k \in 1..Len(proc[1].messages) :
      LET message == proc[1].messages[k]
      IN  (/\ Strip(MessageText(message)) # << >>
           /\ ~\E c \in CallsOf(1, "save") :
                 c.id = message.id /\ c.out # "ok")
            => /\ CountRows(message.id) = 1
               /\ \E j \in 1..Len(message_analytics) :
                    /\ message_analytics[j].msg_id = message.id
                    /\ message_analytics[j].role = MessageRole(message)

\* one run has returned after saving a row for a Message stored with role
\* assistant and a row for a Message stored with role system
C17_Witness ==
  /\ RunDone(1)
  /\ \E k \in 1..Len(proc[1].messages) :
       /\ proc[1].messages[k].role = AssistantRole
       /\ CountRows(proc[1].messages[k].id) = 1
  /\ \E k \in 1..Len(proc[1].messages) :
       /\ proc[1].messages[k].role = SystemRole
       /\ CountRows(proc[1].messages[k].id) = 1

\* C18: the session-scoped pipeline filters to user role only.  Every
\* Message for which process_session_analytics has saved a row is stored
\* with role user.
C18_SessionUserOnly ==
  \A c \in Range(sess.calls) :
    (c.op = "save" /\ c.out = "ok") =>
      \E m \in Range(chat_messages) : m.id = c.id /\ m.role = UserRole

\* C19: session-scoped processing bypasses the queue.  No step of
\* process_session_analytics changes log_inserts and it calls neither
\* mark nor clear, so a Message that is pending when the session-scoped
\* run saves its row is pending afterwards.
C19_SessionBypassesQueue ==
  /\ [][sess' # sess =>
          /\ log_inserts' = log_inserts
          /\ \A i \in PendingIds : i \in PendingIds']_vars
  /\ [](\A c \in Range(sess.calls) : c.op \in {"analyze", "save"})

\* the session-scoped run has returned with success and the Message it
\* saved a row for is still pending, with that one row
C19_Witness ==
  /\ SessionReturned /\ sess.result.success
  /\ \E c \in Range(sess.calls) :
       /\ c.op = "save" /\ c.out = "ok"
       /\ c.id \in PendingIds
       /\ CountRows(c.id) = 1

\* C20: the migration enqueues only Messages that have not been analyzed
\* yet.  The ids of the log_inserts rows that a run of the migration adds
\* are exactly the ids of the Messages that had no log_inserts row and no
\* message_analytics row, and the added rows are unprocessed.
C20_MigrationOnlyUnanalyzed ==
  [][RunMigration =>
       LET before == GetExistingLogMessageIds(log_inserts)
           after  == GetExistingLogMessageIds(log_inserts')
       IN  /\ after \ before =
                {i \in StoredIds : i \notin before /\ CountRows(i) = 0}
           /\ \A i \in after \ before : i \in PendingIds']_vars

\* C21: session deletion does not cascade.  A step that removes Messages
\* removes exactly the Messages of one session together with its session
\* row and leaves log_inserts and message_analytics as they are.
C21_DeleteNoCascade ==
  [][Len(chat_messages') < Len(chat_messages) =>
       /\ \E session_id \in SessionIds :
            /\ chat_messages' =
                 DeleteSessionMessages(chat_messages, session_id)
            /\ chat_sessions' = chat_sessions \ {session_id}
       /\ log_inserts' = log_inserts
       /\ message_analytics' = message_analytics]_vars

\* a session was deleted and left behind a queue entry and an analysis
\* row of Messages that no longer exist
C21_Witness ==
  /\ \E r \in Range(log_inserts) :
       r.chat_message_id < next_id /\ r.chat_message_id \notin StoredIds
  /\ \E r \in Range(message_analytics) : r.msg_id \notin StoredIds

\* C22: the Analytics Store is append-only.  Every step of every
\* operation leaves the rows that message_analytics holds in place and
\* unchanged: the table after the step is the table before it followed by
\* the rows the step inserted.
C22_AppendOnly ==
  [][/\ Len(message_analytics') >= Len(message_analytics)
     /\ SubSeq(message_analytics', 1, Len(message_analytics)) =
          message_analytics]_vars

\* rows were inserted, then a session was deleted, the migration ran, a
\* run marked and cleared the queue and the dashboard read the table
C22_Witness ==
  /\ Len(message_analytics) >= 2
  /\ analytics_data.success
  /\ analytics_data.total_messages >= 1
  /\ \E r \in Range(message_analytics) : r.msg_id \notin StoredIds
  /\ \E c \in Range(proc[1].calls) : c.op = "clear"
  /\ sess.result.kind = "done"

\* C23: score clamping.  Whenever the configured analyzer gets a JSON
\* object that _validate_analysis accepts, the row saved for the Message
\* holds min(1.0, max(-1.0, s)) when the sentiment_score s of the object is
\* a number, and 0.0 when the member is missing or is no number.
C23_ScoreClamping ==
  [][\A response \in ValidateResponses :
       (/\ model_configured
        /\ Len(message_analytics') > Len(message_analytics)
        /\ ~ValidateRaises(response.obj)
        /\ ProcessMessage(1, response, "ok"))
         => LET sc == JGet(response.obj, "sentiment_score", JNull)
                s  == IF sc.t # "num" THEN 0
                      ELSE IF sc.v < -10 THEN -10
                      ELSE IF sc.v > 10 THEN 10
                      ELSE sc.v
            IN  message_analytics'[Len(message_analytics')].sentiment_score
                  = s]_vars

C25_KeywordNormalisation ==
  [][\A response \in ValidateResponses :
       (/\ model_configured
        /\ Len(message_analytics') > Len(message_analytics)
        /\ ~ValidateRaises(response.obj)
        /\ ProcessMessage(1, response, "ok"))
         => LET kw       == JGet(response.obj, "contains_keywords",
                                 JList(<< >>))
                n        == IF Len(kw.v) < 5 THEN Len(kw.v) ELSE 5
                trimmed  == [k \in 1..n |-> Strip(PyStr(kw.v[k]))]
                Kept(t)  == t # << >>
            IN  message_analytics'[Len(message_analytics')].contains_keywords
                  = IF kw.t = "list" THEN SelectSeq(trimmed, Kept)
                    ELSE << >>]_vars

\* of eight keywords the first five were saved
C25_Witness ==
  \E r \in Range(message_analytics) :
    r.contains_keywords = <<<<"a">>, <<"b">>, <<"c">>, <<"d">>, <<"e">>>>

\* C26: parser strategy order.  For every str the parser returns the
\* result of the first strategy that matches: (1) when the text has the
\* pattern role='X' ... content=[Y], the role X and the cleaned Y;
\* (2) otherwise, when it has a quote, a non-empty run without quotes and
\* a quote, the role user and the first such run; (3) otherwise no role
\* and the text trimmed.
C26_StrategyOrder ==
  (parse_result.called /\ parse_result.content.is_str) =>
    LET c          == parse_result.content.v
        m          == ChatMessageSearch(c)
        Quoted(i, j) ==
          /\ i < j - 1
          /\ c[i] \in QuoteChars
          /\ c[j] \in QuoteChars
          /\ \A k \in (i + 1)..(j - 1) : c[k] \notin QuoteChars
        pairs      == {ij \in (1..Len(c)) \X (1..Len(c)) :
                         Quoted(ij[1], ij[2])}
        first      == CHOOSE ij \in pairs :
                        \A other \in pairs : ij[1] <= other[1]
    IN  /\ ~parse_result.raised
        /\ m.matched =>
             /\ parse_result.role = m.role
             /\ parse_result.text.v =
                  Strip(ReplaceEscapedNewline(StripQuotes(Strip(m.content))))
        /\ (~m.matched /\ pairs # {}) =>
             /\ parse_result.role = UserRole
             /\ parse_result.text.v = SubSeq(c, first[1] + 1, first[2] - 1)
        /\ (~m.matched /\ pairs = {}) =>
             /\ parse_result.role = None
             /\ parse_result.text.v = Strip(c)

\* role='assistant' content=['Hello there'] was parsed to the role
\* assistant and the text Hello there
C26_Witness ==
  /\ parse_result.called
  /\ parse_result.content = StrContent(RoleToken \o ContentToken)
  /\ parse_result.role = AssistantRole
  /\ parse_result.text.v =
       <<"H","e","l","l","o"," ","t","h","e","r","e">>

\* C27: parsing never blocks the pipeline.  No call of the parser raises,
\* whatever its argument; a call whose matching fails internally returns
\* no role and its argument unchanged.
C27_ParseNeverRaises ==
  parse_result.called =>
    /\ ~parse_result.raised
    /\ ~parse_result.content.is_str =>
         /\ parse_result.role = None
         /\ parse_result.text = parse_result.content

\* the parser was called on bytes and returned them with no role
C27_Witness ==
  /\ parse_result.called
  /\ ~parse_result.content.is_str
  /\ parse_result.content.v # << >>
  /\ parse_result.text = parse_result.content

\* C28: mark_processed tolerates unknown ids.  A call of
\* mark_messages_processed by either of two concurrent runs, also with ids
\* whose row the other run has already cleared, raises no error (the run
\* goes on to the clear), creates no row, and sets the flag of exactly the
\* rows of the ids it was given.
C28_MarkToleratesUnknown ==
  [][\A p \in Procs :
       (proc[p].pc = "mark" /\ proc'[p].pc # "mark"
          /\ proc[p].processed_message_ids # << >>) =>
         LET ids == Range(proc[p].processed_message_ids)
         IN  /\ proc'[p].pc = "clear"
             /\ proc'[p].calls[Len(proc'[p].calls)] =
                  Call("mark", 0, proc[p].processed_message_ids, "ok")
             /\ Len(log_inserts') = Len(log_inserts)
             /\ \A k \in 1..Len(log_inserts) :
                  /\ log_inserts'[k].chat_message_id =
                       log_inserts[k].chat_message_id
                  /\ log_inserts'[k].processed =
                       (log_inserts[k].processed
                          \/ log_inserts[k].chat_message_id \in ids)]_vars

\* a run has marked an id whose row the other run had already cleared, and
\* both runs have returned with success
C28_Witness ==
  /\ marked_unknown # {}
  /\ \A p \in Procs : RunDone(p) /\ proc[p].result.success
  /\ \A p \in Procs : \E c \in CallsOf(p, "mark") :
       marked_unknown \subseteq Range(c.ids)

\* C29: queue drain.  When a run has returned, every id that was pending
\* when it started has been retired: log_inserts holds no row for it any
\* more.
C29_QueueDrain ==
  Returned(1) =>
    \A i \in Range(proc[1].unprocessed_ids) :
      i \notin GetExistingLogMessageIds(log_inserts)

\* C30: no lost work under concurrent inserts.  While a run is in
\* progress, an id that is pending and was not among the ids the run read
\* (its Message was inserted after the run read the queue) stays pending
\* through every step up to the return of the run, the clear included, and
\* the mark call of the run is given only ids that the run read.
C30_ConcurrentInsertKept ==
  [][proc[1].pc # "idle" =>
       /\ \A i \in PendingIds \ Range(proc[1].unprocessed_ids) :
            i \in PendingIds'
       /\ \A c \in Range(proc'[1].calls) :
            c.op = "mark" =>
              Range(c.ids) \subseteq Range(proc[1].unprocessed_ids)]_vars

\* a Message was inserted after the run had read the queue: the run has
\* marked the ids it handled, and the id of that Message is pending
C30_Witness ==
  /\ proc[1].pc = "clear"
  /\ \E c \in CallsOf(1, "mark") : c.out = "ok"
  /\ \E i \in PendingIds : i \notin Range(proc[1].unprocessed_ids)

\* C31: in one invocation of process_unprocessed_messages the Messages are
\* handled in ascending id order (the ids of the messages handled so far
\* are strictly ascending), and the row saved for the k-th Message of the
\* fetched batch carries sequence_number k: the number of Messages of the
\* batch whose id is not larger, so the first Message of every invocation
\* gets 1 whatever earlier invocations have numbered.
C31_BatchSequence ==
  [][/\ (Len(message_analytics') > Len(message_analytics)
           /\ proc[1].pc = "loop")
        => LET l   == proc[1]
               row == message_analytics'[Len(message_analytics')]
           IN  /\ row.msg_id \in {m.id : m \in Range(l.messages)}
               /\ row.sequence_number =
                    Cardinality({m \in Range(l.messages) :
                                   m.id <= row.msg_id})
               /\ row.sequence_number >= 1
      /\ LET handled == SelectSeq(proc'[1].calls,
                                  LAMBDA c : c.op \in {"skip", "analyze"})
         IN  \A j, k \in 1..Len(handled) :
               j < k => handled[j].id < handled[k].id]_vars

\* two invocations have each saved a row: the first handled Message 1 alone,
\* the second fetched Message 2 alone and numbered it 1 again
C31_Witness ==
  /\ Len(message_analytics) = 2
  /\ message_analytics[1].msg_id = 1
  /\ message_analytics[1].sequence_number = 1
  /\ message_analytics[2].msg_id = 2
  /\ message_analytics[2].sequence_number = 1
  /\ proc[1].pc = "idle"
  /\ Len(proc[1].messages) = 1

\* C32: in every reachable state every row of chat_messages has a role
\* among user, assistant and system; and a call of save_chat_message with
\* any other role returns False, leaves no transaction open and changes
\* neither chat_messages nor chat_sessions nor log_inserts.
C32_ValidRoles ==
  /\ [](\A k \in 1..Len(chat_messages) :
          chat_messages[k].role \in {UserRole, AssistantRole, SystemRole})
  /\ [][\A m \in RoleSamples :
          (/\ m.role \notin {UserRole, AssistantRole, SystemRole}
           /\ SaveChatMessageExecute(m, TRUE))
          => /\ save_result' = "False"
             /\ ~txn'.open
             /\ UNCHANGED <<chat_messages, chat_sessions, log_inserts,
                            next_id>>]_vars

\* a Message of session s1 is stored and the last call, with a rejected
\* role for session s2, has returned False: no row of session s2 exists
\* and the queue holds nothing but the entry of the stored Message
C32_Witness ==
  /\ save_result = "False"
  /\ ~txn.open
  /\ Len(chat_messages) = 1
  /\ chat_sessions = {"s1"}
  /\ next_id = 2
  /\ Len(log_inserts) = 1
  /\ log_inserts[1].chat_message_id = 1

\* C33: Messages are immutable for the pipeline.  Every step of every
\* operation either leaves chat_messages as it is, or is the commit of
\* save_chat_message appending the new row, or is the deletion of one
\* session, which removes the rows of that session and nothing else; so no
\* step of the queue-driven run, of the session-scoped processing, of mark
\* and clear, of the migration or of get_analytics_data changes or removes
\* a row, and rows are removed by the deletion of a session only.
C33_MessagesImmutable ==
  [][\/ UNCHANGED chat_messages
     \/ /\ txn.open
        /\ ~txn'.open
        /\ chat_messages' = chat_messages \o txn.messages
        /\ UNCHANGED <<proc, sess, message_analytics, analytics_data>>
     \/ \E session_id \in SessionIds :
          /\ chat_messages' =
               SelectSeq(chat_messages,
                         LAMBDA m : m.session_id # session_id)
          /\ chat_sessions' = chat_sessions \ {session_id}
          /\ UNCHANGED <<proc, sess, log_inserts, message_analytics,
                         analytics_data, txn>>]_vars

\* Message 1 was deleted with its session; Message 2 was then handled by a
\* run that marked and cleared its entry, enqueued again by the migration,
\* analyzed by the session-scoped processing and read by the dashboard
\* query, and its row in chat_messages is as it was written
C33_Witness ==
  /\ chat_messages = <<[id |-> 2, session_id |-> "s1", role |-> UserRole,
                        content |-> <<"h","i">>]>>
  /\ 1 \in ever_logged
  /\ \E c \in Range(proc[1].calls) : c.op = "mark" /\ 2 \in Range(c.ids)
  /\ \E c \in Range(proc[1].calls) : c.op = "clear"
  /\ \E r \in Range(log_inserts) : r.chat_message_id = 2 /\ ~r.processed
  /\ sess.result.kind = "done"
  /\ analytics_data.success
  /\ analytics_data.total_messages = 2

\* C34: the identity of the rows of log_inserts is unique.  In every
\* reachable state, whatever the interleaving of the commits of the live
\* session, the steps of the migration and the mark and clear of the
\* pipeline, no two rows of log_inserts hold the same message id; and
\* running the migration twice in a row adds nothing the second time: the
\* table that one migration leaves is left as it is by the next one.
C34_QueueIdentityUnique ==
  LET Migrated(log) ==
        LET missing == SelectSeq([k \in 1..Len(chat_messages) |->
                                    chat_messages[k].id],
                                 LAMBDA i : \A r \in Range(log) :
                                              r.chat_message_id # i)
        IN  InsertMissingMessageIds(log, missing)
  IN  /\ \A j, k \in 1..Len(log_inserts) :
           log_inserts[j].chat_message_id = log_inserts[k].chat_message_id
             => j = k
      /\ Migrated(Migrated(log_inserts)) = Migrated(log_inserts)
      /\ \A i \in {m.id : m \in Range(chat_messages)} :
           Cardinality({k \in 1..Len(Migrated(log_inserts)) :
              Migrated(log_inserts)[k].chat_message_id = i}) = 1

\* a run has cleared the entry of Message 1; two invocations of the
\* migration have both found the id missing and both have inserted it: the
\* table holds one row for it
C34_Witness ==
  /\ \A g \in Migs : mig[g].pc = "idle" /\ mig[g].missing_ids = <<1>>
                       /\ mig[g].result = "True"
  /\ \E c \in Range(proc[1].calls) : c.op = "clear"
  /\ Len(log_inserts) = 1
  /\ log_inserts[1].chat_message_id = 1
  /\ ~log_inserts[1].processed

\* C35: when a run has read pending ids and the fetch of their Messages
\* returns no row, the run returns at once: success is false, an error is
\* reported, processed_count is 0 and total_unprocessed is the number of
\* pending ids the run has read; the run has called neither the analyzer
\* nor save, mark or clear, and log_inserts and message_analytics are as
\* they were.
C35_EmptyFetch ==
  [][(/\ proc[1].pc = "fetch"
      /\ proc'[1] # proc[1]
      /\ \A m \in Range(chat_messages) :
           m.id \notin Range(proc[1].unprocessed_ids))
     => /\ proc'[1].pc = "idle"
        /\ ~proc'[1].result.success
        /\ proc'[1].result.error
        /\ proc'[1].result.processed_count = 0
        /\ proc'[1].result.total_unprocessed = Len(proc[1].unprocessed_ids)
        /\ proc'[1].result.total_unprocessed >= 1
        /\ proc'[1].calls = << >>
        /\ UNCHANGED <<log_inserts, message_analytics>>]_vars

\* a run has read the pending ids 1 and 2, both sessions were deleted
\* before it fetched, and it has returned: both entries are still pending
\* and message_analytics is empty
C35_Witness ==
  /\ proc[1].pc = "idle"
  /\ proc[1].unprocessed_ids = <<1, 2>>
  /\ proc[1].result.total_unprocessed = 2
  /\ ~proc[1].result.success
  /\ proc[1].calls = << >>
  /\ chat_messages = << >>
  /\ PendingIds = {1, 2}
  /\ message_analytics = << >>

\* C36: the counters of a run that has returned the result of lines 540-551
\* satisfy processed_count <= marked_processed <= total_retrieved;
\* processed_count is the number of rows the run has inserted into
\* message_analytics (its save calls that inserted a row), and
\* marked_processed is the number of distinct ids the run has passed to
\* mark_messages_processed (0 when it has not called it).
C36_Counters ==
  (proc[1].pc = "idle" /\ proc[1].result.kind = "done")
  => LET r      == proc[1].result
         calls  == proc[1].calls
         saved  == {k \in 1..Len(calls) :
                      calls[k].op = "save" /\ calls[k].out = "ok"}
         marked == UNION {{calls[k].ids[j] : j \in 1..Len(calls[k].ids)} :
                            k \in {n \in 1..Len(calls) :
                                     calls[n].op = "mark"}}
     IN  /\ r.processed_count <= r.marked_processed
         /\ r.marked_processed <= r.total_retrieved
         /\ r.processed_count = Cardinality(saved)
         /\ r.marked_processed = Cardinality(marked)
         /\ Cardinality(saved) <= Len(message_analytics)
         /\ Cardinality({k \in 1..Len(calls) : calls[k].op = "mark"}) <= 1

\* a run has retrieved two Messages, saved the row of one and got False
\* from the save of the other: it has marked one id and reports
\* processed_count 1, marked_processed 1, total_retrieved 2
C36_Witness ==
  /\ proc[1].pc = "idle"
  /\ proc[1].result.kind = "done"
  /\ proc[1].result.processed_count = 1
  /\ proc[1].result.marked_processed = 1
  /\ proc[1].result.total_retrieved = 2
  /\ \E c \in Range(proc[1].calls) : c.op = "save" /\ c.out = "false"
  /\ \E c \in Range(proc[1].calls) : c.op = "mark" /\ Len(c.ids) = 1

\* C37: the row that a run of process_unprocessed_messages inserts for a
\* Message records as role the role that the parser returns for the
\* content when it returns one, and the stored role of the Message when
\* it returns none; and as text the parsed text when it is not empty, and
\* the raw content when it is.
C37_RecordedRoleAndText ==
  [][(Len(message_analytics') > Len(message_analytics)
        /\ proc[1].pc = "loop")
     => LET row     == message_analytics'[Len(message_analytics')]
            message == CHOOSE m \in Range(chat_messages) :
                         m.id = row.msg_id
            parsed  == ParseChatMessageContent(message.content)
        IN  /\ row.msg_id \in {m.id : m \in Range(chat_messages)}
            /\ row.role = IF parsed.role # None THEN parsed.role
                          ELSE message.role
            /\ row.message = IF parsed.text # << >> THEN parsed.text
                             ELSE message.content]_vars

\* a Message stored as system whose content names the role assistant has a
\* row with role assistant and the parsed text ok; a Message stored as
\* assistant whose content names the role user and an empty text has a row
\* with role user and the raw content
C37_Witness ==
  /\ \E m \in Range(chat_messages), r \in Range(message_analytics) :
       /\ r.msg_id = m.id
       /\ m.role = SystemRole /\ m.content = StructuredContent
       /\ r.role = AssistantRole /\ r.message = <<"o","k">>
  /\ \E m \in Range(chat_messages), r \in Range(message_analytics) :
       /\ r.msg_id = m.id
       /\ m.role = AssistantRole /\ m.content = StructuredEmptyContent
       /\ r.role = UserRole /\ r.message = StructuredEmptyContent

\* C38: a run of process_unprocessed_messages runs to completion.  Under a
\* scheduler that lets every step of the run complete (every analyzer and
\* storage call returns), a run that has started returns a result; at
\* every moment each fetched Message before the current one has been
\* handled exactly once (skipped or analyzed) and no later one has been
\* handled, so that at the return each fetched Message was handled exactly
\* once; and the analyzer was called at most once per Message.
C38_RunToCompletion ==
  /\ (proc[1].pc # "idle")
       ~> (proc[1].pc = "idle"
             /\ proc[1].result.kind \in {"done", "nofetch"})
  /\ [](LET l == proc[1]
            Handlings(i) == {k \in 1..Len(l.calls) :
                               /\ l.calls[k].op \in {"skip", "analyze"}
                               /\ l.calls[k].id = i}
            Analyses(i)  == {k \in 1..Len(l.calls) :
                               /\ l.calls[k].op = "analyze"
                               /\ l.calls[k].id = i}
        IN  /\ \A n \in 1..Len(l.messages) :
                 /\ Cardinality(Handlings(l.messages[n].id)) =
                      IF n < l.idx THEN 1 ELSE 0
                 /\ Cardinality(Analyses(l.messages[n].id)) <= 1
            /\ (l.pc = "idle" /\ l.result.kind = "done")
                 => l.idx = Len(l.messages) + 1)

\* a run has fetched two Messages and has returned: it analyzed one with
\* one call of the analyzer and skipped the other
C38_Witness ==
  /\ proc[1].pc = "idle"
  /\ proc[1].result.kind = "done"
  /\ proc[1].result.total_retrieved = 2
  /\ Cardinality({k \in 1..Len(proc[1].calls) :
                    proc[1].calls[k].op = "analyze"}) = 1
  /\ Cardinality({k \in 1..Len(proc[1].calls) :
                    proc[1].calls[k].op = "skip"}) = 1

=============================================================================
